---- MODULE Spec2Model ----
(***************************************************************************)
(* A model of the p2p RPC runtime of distributeddolt (package main, type   *)
(* P2P): the per-peer reader/writer workers, the request tracker used by   *)
(* sendRequest, the RPC dispatcher (requestHandler / responseHandler), the *)
(* peer lifecycle (newRPCStreamHandler, peerDiscoveryProcessor,            *)
(* closeConnectionHandler) and the stopper returned by StartServer.        *)
(*                                                                         *)
(* Every goroutine is a task with a program counter.  A step of a task is  *)
(* one action; a blocking channel operation is an action whose guard is    *)
(* the condition under which the Go runtime lets it proceed.  A send on an *)
(* unbuffered channel and the matching receive are one joint action.  A    *)
(* panic that no deferred recover catches ends the process: crashed is set *)
(* and no action is enabled any more.                                      *)
(***************************************************************************)
EXTENDS Naturals, Integers, Sequences, FiniteSets, TLC

\* ---------------------------------------------------------------- bounds
\* Worker instances (rpcMsgProcessor values) created during a run.
MaxWorkers == 2
\* Invocations of newRPCStreamHandler by the host (inbound streams).
MaxInbound == 2
\* Disconnect notifications delivered by the host.
MaxDisc == 1
\* Calls of sendRequest.
MaxSends == 1
\* Response envelopes read from the streams.
MaxResp == 1
\* Request envelopes read from the streams.
MaxReq == 2
\* Calls of StartServer.
MaxStarts == 1
\* Calls of the stopper a call of StartServer returned.
MaxStops == 2
\* Capacity of a peer's write queue.  The program uses 200
\* (make(chan rpcMsg, 200)); the model scales it down so that a full queue
\* is reachable.
QueueCap == 2
\* Peers announced by the mDNS service (calls of HandlePeerFound).
MaxFound == 2
\* Messages the host's subscription delivers (own broadcasts and messages
\* received from peers).
MaxPub == 2
\* Length of the texts a ping request carries.
MaxLen == 1
\* Calls of createClientForPeer.
MaxProbes == 2
\* Sends in flight at the same time, and the Responses to them, in the runs
\* about the correlation of responses with requests.
MaxFlight == 2

\* Remote peers, and the local peer id (host.ID()).
Peers == {"B"}
Local == "A"

W == 1..MaxWorkers
HostTasks == 1..MaxInbound
Starts == 1..MaxStarts
\* Task 1 - n is the call of newRPCStreamHandler made by the discovery loop
\* of the n-th StartServer.
DiscTask(n) == 1 - n
DiscTasks == {DiscTask(n) : n \in Starts}
StartOf(t) == 1 - t
HTasks == DiscTasks \cup HostTasks
CTasks == 1..MaxDisc
S == 1..MaxSends
R == 1..MaxResp
Q == 1..MaxReq
\* <<n, j>> is the j-th call of the stopper of the n-th StartServer.
K == Starts \X (1..MaxStops)
B == 1..MaxProbes
\* The Sends and the Response tasks of the correlation runs, and all the
\* Sends and Response tasks there are.
Flights == 1..MaxFlight
AllSends == S \cup Flights
AllResps == R \cup Flights

\* Ids: the Send of index s mints id s (ksuid.New() is unique per call); the
\* request of index q minted by a remote peer has id MaxSends + MaxFlight + q, so that
\* local and remote ids are disjoint.
RemoteId(q) == MaxSends + MaxFlight + q

\* Absent worker (the found = false of a cmap Get) and absent peer.
NoWorker == 1 - 1
NoPeer == "none"

VARIABLES
    \* host and process
    started,        \* call of StartServer -> no / addRPC / addPubSub / processors / ok / listenErr / panic
    crashed,        \* an unrecovered panic ended the process
    connected,      \* the host has a connection to the peer
    \* p2p.rpcMsgProcessors and the workers it holds or held
    procs,          \* peer -> worker instance (NoWorker when absent)
    wPeer,          \* worker instance -> its peer (NoPeer: not yet created)
    queue,          \* worker instance -> contents of WriteQueue
    cancelled,      \* worker instance -> Stop() (cancel) was called
    readerPc,       \* worker instance -> rpcMsgReader: none / running / exited
    writerPc,       \* worker instance -> rpcMsgWriter: none / running / exited
    wMsg,           \* worker instance -> the envelope its writer received and has not written yet
    \* newRPCStreamHandler invocations
    hPc, hPeer,
    \* closeConnectionHandler invocations
    cPc, cPeer, cW,
    \* peerDiscoveryProcessor goroutines, one for each StartServer
    dPc, dPeer,
    \* sendRequest calls and p2p.reqs
    sPc, sPeer, sW, sResult, reqs,
    \* requestTracker of each Send and its timeout goroutine
    closeSig, closeCount, delivered, chansClosed, tPc,
    \* msgProcessor goroutines handling Response envelopes
    rPc, rId, rErr, rLate, rFound, rPanicked,
    \* msgProcessor goroutines handling Request envelopes
    qPc, qIn, qW, qEnq, qInvoked, qFound,
    \* stopper calls, the pubsub processors, one for each StartServer
    kPc, pubsubCancelled, pPc,
    \* the peer-list channel given to NewManager
    found,          \* number of peers announced by mDNS so far
    published,      \* number of peer lists the channel has accepted
    \* the RPC streams and what went through the write queues
    hStream,        \* newRPCStreamHandler invocation in progress -> its stream is open
    streamOpen,     \* worker instance -> its stream is open
    enqLog,         \* worker instance -> envelopes sent on WriteQueue, in order
    peakSends,      \* worker instance -> most requests of Sends its queue held at once (history)
    wire,           \* worker instance -> envelopes written to the stream, in order
    \* pubsub: the subscription and the dispatch goroutines
    psLog,          \* messages the subscription has been given, in order
    psTaken,        \* how many of them subscription.Next has returned
    psPending,      \* messages handed to a dispatch goroutine that has not run yet
    psInvoked,      \* messages the pubsub handler was invoked with
    \* the data of the Sends and of the Responses
    sMethod,        \* Send -> msgType
    sArg,           \* Send -> requestData (the text of a ping request)
    sOut,           \* Send -> what was decoded into responseData
    rData,          \* Response task -> response.Data
    \* delimReader goroutines and the reader loops that receive from them
    fPc,            \* worker instance -> framer: none / read / send / exited
    fErr,           \* worker instance -> the bytes the framer holds came with an error
    fMore,          \* worker instance -> the buffer of the framer holds another whole frame
    readerSpun,     \* worker instance -> the reader loop has iterated on the closed channel
    \* createClientForPeer calls
    bPc,            \* call -> idle / ping / sleep / returned
    bPeer,          \* call -> peerID
    bTries,         \* call -> tries
    bPings,         \* call -> how many times client.Ping() was called
    bLast,          \* call -> how the last client.Ping() ended: none / ok / err / panic
    bClient,        \* call -> the result client is not nil
    bErr,           \* call -> the result err is not nil
    \* history
    sFrom,          \* Send -> the Response task whose send it received (0: none)
    sCut            \* Send -> its peer disconnected while it was waiting for the response

hostVars    == <<started, crashed, connected>>
workerVars  == <<procs, wPeer, queue, cancelled, readerPc, writerPc>>
handlerVars == <<hPc, hPeer>>
closeVars   == <<cPc, cPeer, cW>>
discVars    == <<dPc, dPeer>>
sendVars    == <<sPc, sPeer, sW, sResult, reqs>>
trackerVars == <<closeSig, closeCount, delivered, chansClosed, tPc>>
respVars    == <<rPc, rId, rErr, rLate, rFound, rPanicked>>
reqVars     == <<qPc, qIn, qW, qEnq, qInvoked, qFound>>
stopVars    == <<kPc, pubsubCancelled, pPc>>
listVars    == <<found, published>>
wireVars    == <<hStream, streamOpen, enqLog, peakSends, wire>>
histVars    == <<sCut, sFrom>>
pubsubVars  == <<psLog, psTaken, psPending, psInvoked>>
dataVars    == <<sMethod, sArg, sOut, rData>>
frameVars   == <<fPc, fErr, fMore, readerSpun>>
probeVars   == <<bPc, bPeer, bTries, bPings, bLast, bClient, bErr>>

vars == <<hostVars, workerVars, handlerVars, closeVars, discVars, sendVars,
          trackerVars, respVars, reqVars, stopVars, listVars, wireVars, histVars, pubsubVars, dataVars, probeVars,
          frameVars, wMsg>>

\* The process is running.
Alive == ~crashed

\* ------------------------------------------------- encoding/json, framing
\* A text or a byte string is a sequence of characters.  A run of
\* characters none of which is a quote, a backslash, a newline, a brace, a
\* colon or a comma may be written as one element ("ping", "Data").
Quote == "\""
Backslash == "\\"
Newline == "\n"
Tab == "\t"
Return == "\r"
Null == "null"

\* The characters of the texts sent in the model, and the texts.
Chars == {"h", Quote, Backslash, Newline, Tab, Return}
Hello == <<"hello">>
Texts == {Hello} \cup UNION {[1..n -> Chars] : n \in 0..MaxLen}

\* json.Marshal of a string, one character: quote and backslash get a
\* backslash, a newline becomes \n, a tab \t, a carriage return \r.  The
\* other control characters and <, >, & and U+2028, U+2029, which
\* json.Marshal writes as \u escapes, are not characters of the model.
EscapeChar(c) ==
    IF c = Quote THEN <<Backslash, Quote>>
    ELSE IF c = Backslash THEN <<Backslash, Backslash>>
    ELSE IF c = Newline THEN <<Backslash, "n">>
    ELSE IF c = Tab THEN <<Backslash, "t">>
    ELSE IF c = Return THEN <<Backslash, "r">>
    ELSE <<c>>

RECURSIVE Escape(_)
Escape(s) == IF s = <<>> THEN <<>> ELSE EscapeChar(Head(s)) \o Escape(Tail(s))

\* json.Marshal of a string.
MarshalString(s) == <<Quote>> \o Escape(s) \o <<Quote>>

\* The result of a failed parse.
ParseError == [ok |-> FALSE, val |-> <<>>, next |-> 0]

\* json.Unmarshal inside a string literal: i is the next character, acc the
\* text decoded so far; the result has the text and the index after the
\* closing quote.  The escapes are those of quote, backslash, slash, \n, \t
\* and \r (\b, \f and \u are left out); a control character is not allowed
\* unescaped.
Unescaped(c) ==
    IF c = "n" THEN Newline ELSE IF c = "t" THEN Tab ELSE IF c = "r" THEN Return ELSE c
RECURSIVE ScanString(_, _, _)
ScanString(b, i, acc) ==
    IF i > Len(b) THEN ParseError
    ELSE IF b[i] = Quote THEN [ok |-> TRUE, val |-> acc, next |-> i + 1]
    ELSE IF b[i] \in {Newline, Tab, Return} THEN ParseError
    ELSE IF b[i] = Backslash
         THEN IF i + 1 > Len(b) THEN ParseError
              ELSE IF b[i + 1] \in {Quote, Backslash, "/", "n", "t", "r"}
                   THEN ScanString(b, i + 2, Append(acc, Unescaped(b[i + 1])))
              ELSE ParseError
    ELSE ScanString(b, i + 1, Append(acc, b[i]))

\* A string literal that starts at b[i].
ParseString(b, i) ==
    IF i <= Len(b) /\ b[i] = Quote THEN ScanString(b, i + 1, <<>>) ELSE ParseError

\* White space between the tokens of a JSON text, and the index of the
\* first character from b[i] on that is none (Len(b) + 1 when all are; 0
\* stands for a failed scan and stays 0).
Space == " "
WhiteSpace == {Space, Newline, Tab, Return}
RECURSIVE SkipSpace(_, _)
SkipSpace(b, i) ==
    IF i = 0 THEN 0
    ELSE IF i <= Len(b) /\ b[i] \in WhiteSpace THEN SkipSpace(b, i + 1) ELSE i

\* The chunks that are a JSON value by themselves: the literals and the
\* numbers of the model.
Scalars == {Null, "true", "false", "0", "1"}

\* The scanner of encoding/json: the index after the JSON value that starts
\* at b[i] (0 when there is no well-formed value there), after the members
\* of an object from the key at b[i] on, after the elements of an array from
\* the element at b[i] on.
RECURSIVE ValueEnd(_, _)
RECURSIVE MembersEnd(_, _)
RECURSIVE ElementsEnd(_, _)
AfterMember(b, e) ==
    IF e = 0 \/ e > Len(b) THEN 0
    ELSE IF b[e] = "," THEN MembersEnd(b, SkipSpace(b, e + 1))
    ELSE IF b[e] = "}" THEN e + 1
    ELSE 0
AfterColon(b, k) ==
    IF k = 0 \/ k > Len(b) \/ b[k] # ":" THEN 0
    ELSE AfterMember(b, SkipSpace(b, ValueEnd(b, SkipSpace(b, k + 1))))
MembersEnd(b, i) == AfterColon(b, SkipSpace(b, ParseString(b, i).next))
AfterElement(b, e) ==
    IF e = 0 \/ e > Len(b) THEN 0
    ELSE IF b[e] = "," THEN ElementsEnd(b, SkipSpace(b, e + 1))
    ELSE IF b[e] = "]" THEN e + 1
    ELSE 0
ElementsEnd(b, i) == AfterElement(b, SkipSpace(b, ValueEnd(b, i)))
OpenEnd(b, i, j) ==
    IF j > Len(b) THEN 0
    ELSE IF b[i] = "{" THEN (IF b[j] = "}" THEN j + 1 ELSE MembersEnd(b, j))
    ELSE IF b[j] = "]" THEN j + 1 ELSE ElementsEnd(b, j)
ValueEnd(b, i) ==
    IF i = 0 \/ i > Len(b) THEN 0
    ELSE IF b[i] = Quote THEN ParseString(b, i).next
    ELSE IF b[i] \in {"{", "["} THEN OpenEnd(b, i, SkipSpace(b, i + 1))
    ELSE IF b[i] \in Scalars THEN i + 1
    ELSE 0

\* checkValid of json.Unmarshal: the whole input is one well-formed value
\* with white space round it.
Valid(b) == SkipSpace(b, ValueEnd(b, SkipSpace(b, 1))) = Len(b) + 1 /\ b # <<>>

\* The members of a well-formed object from the key at b[i] on: a sequence
\* of [key, raw], raw being the bytes of the value.
RECURSIVE ParseFields(_, _, _)
MemberValue(b, key, v, e, acc) ==
    IF b[SkipSpace(b, e)] = ","
    THEN ParseFields(b, SkipSpace(b, SkipSpace(b, e) + 1),
                     Append(acc, [key |-> key.val, raw |-> SubSeq(b, v, e - 1)]))
    ELSE Append(acc, [key |-> key.val, raw |-> SubSeq(b, v, e - 1)])
MemberAt(b, key, v, acc) == MemberValue(b, key, v, ValueEnd(b, v), acc)
MemberKey(b, key, acc) ==
    MemberAt(b, key, SkipSpace(b, SkipSpace(b, key.next) + 1), acc)
ParseFields(b, i, acc) == IF b[i] = "}" THEN acc ELSE MemberKey(b, ParseString(b, i), acc)

\* json.Unmarshal of bytes into a struct: its members when the input is a
\* well-formed object, none when it is null (null has no effect); an error
\* when the input is not well-formed (nil included) or another value.
ObjectAt(b, s) ==
    IF b[s] = "{" THEN [ok |-> TRUE, val |-> ParseFields(b, SkipSpace(b, s + 1), <<>>), next |-> 0]
    ELSE IF b[s] = Null THEN [ok |-> TRUE, val |-> <<>>, next |-> 0]
    ELSE ParseError
ParseObject(b) == IF Valid(b) THEN ObjectAt(b, SkipSpace(b, 1)) ELSE ParseError
UnmarshalObject(raw) == ParseObject(raw)

\* The field names of the structs in their spellings and in lower case:
\* encoding/json matches a key with a field name whatever the case.
Lower ==
    [c \in {"ID", "Id", "TYPE", "Type", "PAYLOAD", "Payload", "DATA", "Data",
            "ERROR", "Error", "MSG", "Msg", "REPLY", "Reply"} |->
        IF c \in {"ID", "Id"} THEN "id"
        ELSE IF c \in {"TYPE", "Type"} THEN "type"
        ELSE IF c \in {"PAYLOAD", "Payload"} THEN "payload"
        ELSE IF c \in {"DATA", "Data"} THEN "data"
        ELSE IF c \in {"ERROR", "Error"} THEN "error"
        ELSE IF c \in {"MSG", "Msg"} THEN "msg"
        ELSE "reply"]
Fold(key) == [i \in 1..Len(key) |-> IF key[i] \in DOMAIN Lower THEN Lower[key[i]] ELSE key[i]]

\* The members of an object that go to the field of the given name, and the
\* last of a non-empty set of them.
Members(fields, name) == {i \in 1..Len(fields) : Fold(fields[i].key) = Fold(name)}
Last(set) == CHOOSE i \in set : \A j \in set : j <= i

\* A json.RawMessage field: the bytes of the last member of that name (the
\* bytes null for a null), nil when there is none.
RawOf(fields, set) == IF set = {} THEN <<>> ELSE fields[Last(set)].raw
Field(fields, name) == RawOf(fields, Members(fields, name))

\* A string field: the text of the last member of that name that is a
\* string; a null has no effect, no member leaves the zero value, a member
\* that is another value is an error.
IsString(raw) == raw # <<>> /\ raw[1] = Quote
StringOf(fields, set) ==
    IF \E i \in set : fields[i].raw # <<Null>> /\ ~IsString(fields[i].raw) THEN ParseError
    ELSE IF \A i \in set : ~IsString(fields[i].raw) THEN [ok |-> TRUE, val |-> <<>>, next |-> 0]
    ELSE ParseString(fields[Last({i \in set : IsString(fields[i].raw)})].raw, 1)
StringField(fields, name) == StringOf(fields, Members(fields, name))

\* json.Unmarshal of bytes into a struct of one string field.
StringOfObject(o, name) == IF o.ok THEN StringField(o.val, name) ELSE ParseError
UnmarshalString1(raw, name) == StringOfObject(UnmarshalObject(raw), name)


\* json.Marshal of a struct of two or three fields (names in the order of
\* the declaration, values already encoded).
MarshalStruct2(k1, v1, k2, v2) ==
    <<"{">> \o MarshalString(<<k1>>) \o <<":">> \o v1 \o <<",">>
            \o MarshalString(<<k2>>) \o <<":">> \o v2 \o <<"}">>
MarshalStruct1(k1, v1) ==
    <<"{">> \o MarshalString(<<k1>>) \o <<":">> \o v1 \o <<"}">>
MarshalStruct3(k1, v1, k2, v2, k3, v3) ==
    <<"{">> \o MarshalString(<<k1>>) \o <<":">> \o v1 \o <<",">>
            \o MarshalString(<<k2>>) \o <<":">> \o v2 \o <<",">>
            \o MarshalString(<<k3>>) \o <<":">> \o v3 \o <<"}">>

\* json.Marshal of a json.RawMessage field: the bytes, null when nil.
MarshalRaw(raw) == IF raw = <<>> THEN <<Null>> ELSE raw

\* A Go string of the model (a method name, an id, an error text) as a
\* text, and back.
Text(str) == IF str = "" THEN <<>> ELSE <<str>>
FromText(txt) == IF txt = <<>> THEN "" ELSE IF Len(txt) = 1 THEN txt[1] ELSE "?"

\* The request and response types of the ping method (PingReq, PingResp):
\* one string field each.
MarshalPingReq(x) == MarshalStruct1("msg", MarshalString(x))
UnmarshalPingReq(raw) == UnmarshalString1(raw, <<"msg">>)
MarshalPingResp(y) == MarshalStruct1("reply", MarshalString(y))
UnmarshalPingResp(raw) == UnmarshalString1(raw, <<"reply">>)

\* Server.Ping: an error when the context holds no remote peer, the Pong of
\* the Ping otherwise.
Ping(hasPeer, req) ==
    IF ~hasPeer THEN [err |-> "no AuthInfo in context", pong |-> <<>>]
    ELSE [err |-> "", pong |-> <<"Ping: ">> \o req \o <<"!">>]

\* The handler registered under "ping" by StartServer; it is called with the
\* id of the peer that sent the request.
HandlerPing(req) == Ping(TRUE, req).pong

\* json.Marshal of rpcPayloadRequest and rpcPayloadResponse.
MarshalRequest(method, data) ==
    MarshalStruct2("Type", MarshalString(Text(method)), "Data", MarshalRaw(data))
MarshalResponse(error, data) ==
    MarshalStruct2("Error", MarshalString(Text(error)), "Data", MarshalRaw(data))

\* json.Unmarshal into rpcPayloadRequest and rpcPayloadResponse.
RequestOf(o, type) ==
    IF o.ok /\ type.ok
    THEN [ok |-> TRUE, method |-> FromText(type.val), data |-> Field(o.val, <<"Data">>)]
    ELSE [ok |-> FALSE, method |-> "", data |-> <<>>]
RequestOfObject(o) == RequestOf(o, StringField(o.val, <<"Type">>))
UnmarshalRequest(payload) == RequestOfObject(UnmarshalObject(payload))
ResponseOf(o, error) ==
    IF o.ok /\ error.ok
    THEN [ok |-> TRUE, error |-> FromText(error.val), data |-> Field(o.val, <<"Data">>)]
    ELSE [ok |-> FALSE, error |-> "", data |-> <<>>]
ResponseOfObject(o) == ResponseOf(o, StringField(o.val, <<"Error">>))
UnmarshalResponse(payload) == ResponseOfObject(UnmarshalObject(payload))

\* An rpcMsg in memory: its ID and Type and, in place of the Payload bytes,
\* what the payload was encoded from (rpcPayloadRequest.Type, or
\* rpcPayloadResponse.Error, and the Data bytes).
Envelope(id, kind, method, err, data) ==
    [id |-> id, kind |-> kind, method |-> method, err |-> err, data |-> data]

\* msg.Payload: json.Marshal of the rpcPayloadRequest / rpcPayloadResponse.
PayloadBytes(env) ==
    IF env.kind = "request"
    THEN MarshalRequest(env.method, env.data)
    ELSE MarshalResponse(env.err, env.data)

\* rpcMsgWriter, lines 230-236: json.Marshal(msg) and the '\n' appended.
MarshalMsg(id, kind, payload) ==
    MarshalStruct3("ID", MarshalString(id), "Type", MarshalString(Text(kind)),
                   "Payload", MarshalRaw(payload))
Frame(bytes) == bytes \o <<Newline>>
FrameOf(env) == Frame(MarshalMsg(Text(ToString(env.id)), env.kind, PayloadBytes(env)))

\* delimReader: the bytes of a stream cut after every '\n'.
RECURSIVE Frames(_)
Frames(b) ==
    IF b = <<>> THEN <<>>
    ELSE IF \E i \in 1..Len(b) : b[i] = Newline
         THEN LET n == CHOOSE i \in 1..Len(b) :
                           b[i] = Newline /\ \A j \in 1..(i - 1) : b[j] # Newline
              IN <<SubSeq(b, 1, n)>> \o Frames(SubSeq(b, n + 1, Len(b)))
    ELSE <<b>>

\* msgProcessor, lines 180-185: json.Unmarshal of a frame into an rpcMsg.
MsgOf(o, id, type) ==
    IF o.ok /\ id.ok /\ type.ok
    THEN [ok |-> TRUE, id |-> id.val, kind |-> FromText(type.val),
          payload |-> Field(o.val, <<"Payload">>)]
    ELSE [ok |-> FALSE, id |-> <<>>, kind |-> "", payload |-> <<>>]
MsgOfObject(o) == MsgOf(o, StringField(o.val, <<"ID">>), StringField(o.val, <<"Type">>))
UnmarshalMsg(frame) == MsgOfObject(UnmarshalObject(frame))

\* ------------------------------------------------------------------ Init
\* The state after NewManager: empty tables, no goroutine started yet.
Init ==
    /\ started = [n \in Starts |-> "no"]
    /\ crashed = FALSE
    /\ connected = [p \in Peers |-> FALSE]
    /\ procs = [p \in Peers |-> NoWorker]
    /\ wPeer = [w \in W |-> NoPeer]
    /\ queue = [w \in W |-> <<>>]
    /\ cancelled = [w \in W |-> FALSE]
    /\ readerPc = [w \in W |-> "none"]
    /\ writerPc = [w \in W |-> "none"]
    /\ wMsg = [w \in W |-> <<>>]
    /\ hPc = [t \in HTasks |-> "idle"]
    /\ hPeer = [t \in HTasks |-> NoPeer]
    /\ cPc = [c \in CTasks |-> "idle"]
    /\ cPeer = [c \in CTasks |-> NoPeer]
    /\ cW = [c \in CTasks |-> NoWorker]
    /\ dPc = [n \in Starts |-> "none"]
    /\ dPeer = [n \in Starts |-> NoPeer]
    /\ sPc = [s \in AllSends |-> "idle"]
    /\ sPeer = [s \in AllSends |-> NoPeer]
    /\ sW = [s \in AllSends |-> NoWorker]
    /\ sResult = [s \in AllSends |-> "none"]
    /\ reqs = {}
    /\ closeSig = [s \in AllSends |-> FALSE]
    /\ closeCount = [s \in AllSends |-> 0]
    /\ delivered = [s \in AllSends |-> 0]
    /\ chansClosed = [s \in AllSends |-> FALSE]
    /\ tPc = [s \in AllSends |-> "none"]
    /\ rPc = [r \in AllResps |-> "idle"]
    /\ rId = [r \in AllResps |-> 0]
    /\ rErr = [r \in AllResps |-> FALSE]
    /\ rLate = [r \in AllResps |-> FALSE]
    /\ rFound = [r \in AllResps |-> FALSE]
    /\ rPanicked = [r \in AllResps |-> FALSE]
    /\ qPc = [q \in Q |-> "idle"]
    /\ qIn = [q \in Q |-> [payloadOK |-> FALSE, method |-> "none", dataOK |-> FALSE, handler |-> "none", arg |-> <<>>]]
    /\ qW = [q \in Q |-> NoWorker]
    /\ qEnq = [q \in Q |-> <<>>]
    /\ qInvoked = [q \in Q |-> FALSE]
    /\ qFound = [q \in Q |-> FALSE]
    /\ kPc = [k \in K |-> "idle"]
    /\ pubsubCancelled = [n \in Starts |-> FALSE]
    /\ pPc = [n \in Starts |-> "none"]
    /\ found = 0
    /\ published = 0
    /\ hStream = [t \in HTasks |-> FALSE]
    /\ streamOpen = [w \in W |-> FALSE]
    /\ enqLog = [w \in W |-> <<>>]
    /\ peakSends = [w \in W |-> 0]
    /\ wire = [w \in W |-> <<>>]
    /\ sCut = [s \in AllSends |-> FALSE]
    /\ sFrom = [s \in AllSends |-> 0]
    /\ psLog = <<>>
    /\ psTaken = 0
    /\ psPending = {}
    /\ psInvoked = {}
    /\ sMethod = [s \in AllSends |-> ""]
    /\ sArg = [s \in AllSends |-> <<>>]
    /\ sOut = [s \in AllSends |-> <<>>]
    /\ rData = [r \in AllResps |-> <<>>]
    /\ fPc = [w \in W |-> "none"]
    /\ fErr = [w \in W |-> FALSE]
    /\ fMore = [w \in W |-> FALSE]
    /\ readerSpun = [w \in W |-> FALSE]
    /\ bPc = [b \in B |-> "idle"]
    /\ bPeer = [b \in B |-> NoPeer]
    /\ bTries = [b \in B |-> 0]
    /\ bPings = [b \in B |-> 0]
    /\ bLast = [b \in B |-> "none"]
    /\ bClient = [b \in B |-> FALSE]
    /\ bErr = [b \in B |-> FALSE]

\* ----------------------------------------------------------- StartServer
\* An access to one of the plain maps p2p.rpcHandlers and p2p.pubsubHandlers
\* is not synchronised with the others (lines 134, 141, 145, 152).  A call
\* of StartServer is writing the one (line 694) or the other (line 697).
RpcWriters == {n \in Starts : started[n] = "addRPC"}
PubsubWriters == {n \in Starts : started[n] = "addPubSub"}

\* A write of line 694, of line 697, has been made.
RpcAdded == \E n \in Starts : started[n] \notin {"no", "addRPC"}
PubsubAdded == \E n \in Starts : started[n] \notin {"no", "addRPC", "addPubSub"}

\* p2p.rpcHandlers: empty after NewManager, addRPCHandler(pingHandler, ...)
\* in StartServer.
rpcHandlers == IF RpcAdded THEN {"ping"} ELSE {}

\* How a read of a map ends.
LookupOutcomes == {"found", "notFound", "fatal"}

\* What a read of a map gives for a key: found or not found according to
\* the keys of the map; while another goroutine writes the map (added: the
\* key it adds) the read races with the write, and it may find the added
\* key already or end the process with the fatal error "concurrent map
\* read and map write".
MapRead(key, keys, added, writing) ==
    {IF key \in keys THEN "found" ELSE "notFound"}
        \cup (IF writing THEN {"fatal"} ELSE {})
        \cup (IF writing /\ key = added THEN {"found"} ELSE {})

\* getRPCHandler, lines 133-138: the outcomes of the lookup.
getRPCHandler(method) == MapRead(method, rpcHandlers, "ping", RpcWriters # {})

\* StartServer, line 694: addRPCHandler begins to write p2p.rpcHandlers
\* (line 141).  Calls of StartServer are not ordered with one another:
\* while another call writes the map the write may end the process with
\* the fatal error "concurrent map writes".
StartAddRPCHandler(n, fatal) ==
    /\ Alive
    /\ started[n] = "no"
    /\ \A m \in Starts : m < n => started[m] # "no"
    /\ fatal => RpcWriters # {}
    /\ started' = [started EXCEPT ![n] = "addRPC"]
    /\ crashed' = fatal
    /\ UNCHANGED <<connected, workerVars, handlerVars, closeVars, discVars,
                   sendVars, trackerVars, respVars, reqVars, stopVars, listVars, wireVars, histVars, pubsubVars, dataVars, probeVars, frameVars, wMsg>>

\* StartServer, line 697: the write of line 694 is through and
\* addPubSubHandler begins to write p2p.pubsubHandlers (line 152).
StartAddPubSubHandler(n, fatal) ==
    /\ Alive
    /\ started[n] = "addRPC"
    /\ fatal => PubsubWriters # {}
    /\ started' = [started EXCEPT ![n] = "addPubSub"]
    /\ crashed' = fatal
    /\ UNCHANGED <<connected, workerVars, handlerVars, closeVars, discVars,
                   sendVars, trackerVars, respVars, reqVars, stopVars, listVars, wireVars, histVars, pubsubVars, dataVars, probeVars, frameVars, wMsg>>

\* StartServer, lines 699-705: the write of line 697 is through; Listen
\* fails and the call returns the error with a stopper that does nothing
\* (lines 700-702), or the pubsub processor and the discovery processor are
\* started.  The host listens from NewManager on, so that Listen changes
\* nothing another goroutine reads, and the discovery loop waits at its
\* select until the mDNS service or the stopper of this call sends to it.
StartProcessors(n, listenOK) ==
    /\ Alive
    /\ started[n] = "addPubSub"
    /\ started' = [started EXCEPT ![n] = IF listenOK THEN "processors" ELSE "listenErr"]
    /\ dPc' = IF listenOK THEN [dPc EXCEPT ![n] = "idle"] ELSE dPc
    /\ pPc' = IF listenOK THEN [pPc EXCEPT ![n] = "running"] ELSE pPc
    /\ UNCHANGED <<connected, workerVars, handlerVars, closeVars, dPeer, crashed,
                   sendVars, trackerVars, respVars, reqVars, kPc, pubsubCancelled, listVars, wireVars, histVars, pubsubVars, dataVars, probeVars, frameVars, wMsg>>

\* StartServer, lines 707-720: the mDNS service is started and the stopper
\* returned, or ser.Start fails and the call panics (line 709) while the
\* two processors run.  Nothing recovers the panic.
StartMdns(n, ok) ==
    /\ Alive
    /\ started[n] = "processors"
    /\ started' = [started EXCEPT ![n] = IF ok THEN "ok" ELSE "panic"]
    /\ crashed' = ~ok
    /\ UNCHANGED <<connected, workerVars, handlerVars, closeVars, discVars,
                   sendVars, trackerVars, respVars, reqVars, stopVars, listVars, wireVars, histVars, pubsubVars, dataVars, probeVars, frameVars, wMsg>>

\* StartServer, lines 689-722: the steps of its n-th call.
StartServer(n) ==
    \/ \E fatal \in BOOLEAN : StartAddRPCHandler(n, fatal)
    \/ \E fatal \in BOOLEAN : StartAddPubSubHandler(n, fatal)
    \/ \E listenOK \in BOOLEAN : StartProcessors(n, listenOK)
    \/ \E ok \in BOOLEAN : StartMdns(n, ok)

\* The mDNS service of the n-th StartServer runs: started (line 708) and
\* not closed by a stopper (line 716).
MdnsRunning(n) ==
    /\ started[n] = "ok"
    /\ \A k \in K : k[1] = n => kPc[k] \in {"idle", "pubsub", "discovery", "serClose"}

\* host.Close() was called (line 717): the host has stopped listening and
\* closes its connections.
HostClosed == \E k \in K : kPc[k] \in {"hostClosing", "returned"} /\ started[k[1]] = "ok"

\* ------------------------------------------------- host: connect, streams
\* The host gains a connection to peer p (the remote side dialled us).  The
\* host listens from NewManager on (libp2p.New, lines 747-756) until it is
\* closed.
HostConnect(p) ==
    /\ Alive
    /\ ~HostClosed
    /\ ~connected[p]
    /\ connected' = [connected EXCEPT ![p] = TRUE]
    /\ UNCHANGED <<started, crashed, workerVars, handlerVars, closeVars, discVars,
                   sendVars, trackerVars, respVars, reqVars, stopVars, listVars, wireVars, histVars, pubsubVars, dataVars, probeVars, frameVars, wMsg>>

\* The remote peer opens an RPC stream: the host runs newRPCStreamHandler
\* (installed by NewManager, line 764) in a goroutine of its own.
InboundStream(t, p) ==
    /\ Alive
    /\ t \in HostTasks
    /\ ~HostClosed
    /\ connected[p]
    /\ hPc[t] = "idle"
    /\ \A u \in HostTasks : u < t => hPc[u] # "idle"
    /\ hPc' = [hPc EXCEPT ![t] = "get"]
    /\ hPeer' = [hPeer EXCEPT ![t] = p]
    /\ hStream' = [hStream EXCEPT ![t] = TRUE]
    /\ UNCHANGED <<hostVars, workerVars, closeVars, discVars,
                   sendVars, trackerVars, respVars, reqVars, stopVars, listVars,
                   streamOpen, enqLog, peakSends, wire, histVars, pubsubVars, dataVars, probeVars, frameVars, wMsg>>

\* The worker instance make(chan rpcMsg, 200) / context.WithCancel would
\* create next: the least instance not yet created (0 when the bound on
\* instances is exhausted).
FreshWorker ==
    IF \E w \in W : wPeer[w] = NoPeer
    THEN CHOOSE w \in W : wPeer[w] = NoPeer /\ \A v \in W : v < w => wPeer[v] # NoPeer
    ELSE NoWorker

\* newRPCStreamHandler returns: a host goroutine ends; the discovery loop
\* goes on to publish the peer list (line 662).
HReturnPc(t) == IF t \in DiscTasks THEN "idle" ELSE "done"
HReturnDisc(t) == IF t \in DiscTasks THEN [dPc EXCEPT ![StartOf(t)] = "publish"] ELSE dPc

\* newRPCStreamHandler, lines 156-159: Get; return when a worker is found
\* (the stream is left to itself).
HGet(t) ==
    /\ Alive
    /\ hPc[t] = "get"
    /\ IF procs[hPeer[t]] # NoWorker
       THEN /\ hPc' = [hPc EXCEPT ![t] = HReturnPc(t)]
            /\ dPc' = HReturnDisc(t)
            /\ hStream' = [hStream EXCEPT ![t] = FALSE]
       ELSE /\ hPc' = [hPc EXCEPT ![t] = "insert"]
            /\ dPc' = dPc
            /\ hStream' = hStream
    /\ UNCHANGED <<hostVars, workerVars, hPeer, closeVars, dPeer,
                   sendVars, trackerVars, respVars, reqVars, stopVars, listVars,
                   streamOpen, enqLog, peakSends, wire, histVars, pubsubVars, dataVars, probeVars, frameVars, wMsg>>

\* A Set that inserts whether or not the key is present.
SetAlways(p) == TRUE

\* SetIfAbsent on rpcMsgProcessors: TRUE when the entry was inserted.
SetIfAbsent(p) == procs[p] = NoWorker

\* newRPCStreamHandler, lines 161-168: make the queue and the context,
\* SetIfAbsent; when inserted start the reader and the writer.
HInsert(t) ==
    /\ Alive
    /\ hPc[t] = "insert"
    /\ IF SetIfAbsent(hPeer[t])
       THEN /\ FreshWorker # NoWorker
            /\ procs' = [procs EXCEPT ![hPeer[t]] = FreshWorker]
            /\ wPeer' = [wPeer EXCEPT ![FreshWorker] = hPeer[t]]
            /\ readerPc' = [readerPc EXCEPT ![FreshWorker] = "running"]
            /\ writerPc' = [writerPc EXCEPT ![FreshWorker] = "running"]
            /\ streamOpen' = [streamOpen EXCEPT ![FreshWorker] = hStream[t]]
            /\ fPc' = [fPc EXCEPT ![FreshWorker] = "read"]
       ELSE UNCHANGED <<procs, wPeer, readerPc, writerPc, streamOpen, fPc>>
    /\ hPc' = [hPc EXCEPT ![t] = HReturnPc(t)]
    /\ dPc' = HReturnDisc(t)
    /\ hStream' = [hStream EXCEPT ![t] = FALSE]
    /\ UNCHANGED <<hostVars, queue, cancelled, hPeer, closeVars, dPeer,
                   sendVars, trackerVars, respVars, reqVars, stopVars, listVars,
                   enqLog, peakSends, wire, histVars, pubsubVars, dataVars, probeVars,
                   fErr, fMore, readerSpun, wMsg>>

\* ------------------------------------------------ closeConnectionHandler
\* The host drops its connection to p and notifies the DisconnectedF
\* callback, which runs closeConnectionHandler in a goroutine of the host.
\* The streams of the connection are reset with it.
HostDisconnect(c, p) ==
    /\ Alive
    /\ connected[p]
    /\ cPc[c] = "idle"
    /\ \A d \in CTasks : d < c => cPc[d] # "idle"
    /\ connected' = [connected EXCEPT ![p] = FALSE]
    /\ cPc' = [cPc EXCEPT ![c] = "pop"]
    /\ cPeer' = [cPeer EXCEPT ![c] = p]
    /\ hStream' = [t \in HTasks |-> hStream[t] /\ hPeer[t] # p]
    /\ streamOpen' = [w \in W |-> streamOpen[w] /\ wPeer[w] # p]
    /\ sCut' = [s \in AllSends |-> sCut[s] \/ (sPc[s] = "wait" /\ sPeer[s] = p)]
    /\ UNCHANGED <<started, crashed, workerVars, handlerVars, cW, discVars,
                   sendVars, trackerVars, respVars, reqVars, stopVars, listVars,
                   enqLog, peakSends, wire, pubsubVars, dataVars, sFrom, probeVars, frameVars, wMsg>>

\* closeConnectionHandler, lines 679-680: Pop the peer's worker.
CPop(c) ==
    /\ Alive
    /\ cPc[c] = "pop"
    /\ IF procs[cPeer[c]] # NoWorker
       THEN /\ cW' = [cW EXCEPT ![c] = procs[cPeer[c]]]
            /\ procs' = [procs EXCEPT ![cPeer[c]] = NoWorker]
            /\ cPc' = [cPc EXCEPT ![c] = "publish"]
       ELSE /\ cPc' = [cPc EXCEPT ![c] = "done"]
            /\ UNCHANGED <<cW, procs>>
    /\ UNCHANGED <<hostVars, wPeer, queue, cancelled, readerPc, writerPc,
                   handlerVars, cPeer, discVars,
                   sendVars, trackerVars, respVars, reqVars, stopVars, listVars, wireVars, histVars, pubsubVars, dataVars, probeVars, frameVars, wMsg>>

\* closeConnectionHandler, line 682: p2p.peerListChan <- Peers().  The
\* channel belongs to the caller of NewManager; the step happens when the
\* channel accepts the value (a consumer receives, or a buffer has room).
CPublish(c) ==
    /\ Alive
    /\ cPc[c] = "publish"
    /\ cPc' = [cPc EXCEPT ![c] = "stop"]
    /\ published' = published + 1
    /\ UNCHANGED <<hostVars, workerVars, handlerVars, cPeer, cW, discVars,
                   sendVars, trackerVars, respVars, reqVars, stopVars, found, wireVars, histVars, pubsubVars, dataVars, probeVars, frameVars, wMsg>>

\* closeConnectionHandler, lines 683-684: msgProcessor.Stop() cancels the
\* worker's context.
CStop(c) ==
    /\ Alive
    /\ cPc[c] = "stop"
    /\ cancelled' = [cancelled EXCEPT ![cW[c]] = TRUE]
    /\ cPc' = [cPc EXCEPT ![c] = "done"]
    /\ UNCHANGED <<hostVars, procs, wPeer, queue, readerPc, writerPc,
                   handlerVars, cPeer, cW, discVars,
                   sendVars, trackerVars, respVars, reqVars, stopVars, listVars, wireVars, histVars, pubsubVars, dataVars, probeVars, frameVars, wMsg>>

\* ------------------------------------------------ peerDiscoveryProcessor
\* HandlePeerFound, called by a running mDNS service, sends the discovered
\* peer on PeerChan (unbuffered) and a loop receives it (line 647).  The number of announcements in a run is
\* bounded by MaxFound.
DiscPeerFound(n, p) ==
    /\ Alive
    /\ dPc[n] = "idle"
    /\ \E m \in Starts : MdnsRunning(m)
    /\ found < MaxFound
    /\ found' = found + 1
    /\ dPc' = [dPc EXCEPT ![n] = "connect"]
    /\ dPeer' = [dPeer EXCEPT ![n] = p]
    /\ UNCHANGED <<hostVars, workerVars, handlerVars, closeVars,
                   sendVars, trackerVars, respVars, reqVars, stopVars, published, wireVars, histVars, pubsubVars, dataVars, probeVars, frameVars, wMsg>>

\* Line 650: host.Connect.  It succeeds at once when the host is already
\* connected; otherwise the dial succeeds or fails, and fails when the host
\* is closed.
DiscConnect(n, ok) ==
    /\ Alive
    /\ dPc[n] = "connect"
    /\ (~ok) => ~connected[dPeer[n]]
    /\ ok => (connected[dPeer[n]] \/ ~HostClosed)
    /\ IF ok
       THEN /\ connected' = [connected EXCEPT ![dPeer[n]] = TRUE]
            /\ dPc' = [dPc EXCEPT ![n] = "newStream"]
       ELSE /\ connected' = connected
            /\ dPc' = [dPc EXCEPT ![n] = "idle"]
    /\ UNCHANGED <<started, crashed, workerVars, handlerVars, closeVars, dPeer,
                   sendVars, trackerVars, respVars, reqVars, stopVars, listVars, wireVars, histVars, pubsubVars, dataVars, probeVars, frameVars, wMsg>>

\* Line 655: host.NewStream, which fails without a connection and on a
\* closed host.  On success the loop calls newRPCStreamHandler itself (line
\* 659); on failure it goes back to the select.
DiscNewStream(n, ok) ==
    /\ Alive
    /\ dPc[n] = "newStream"
    /\ ok => (connected[dPeer[n]] /\ ~HostClosed)
    /\ IF ok
       THEN /\ dPc' = [dPc EXCEPT ![n] = "handler"]
            /\ hPc' = [hPc EXCEPT ![DiscTask(n)] = "get"]
            /\ hPeer' = [hPeer EXCEPT ![DiscTask(n)] = dPeer[n]]
            /\ hStream' = [hStream EXCEPT ![DiscTask(n)] = TRUE]
       ELSE /\ dPc' = [dPc EXCEPT ![n] = "idle"]
            /\ UNCHANGED <<hPc, hPeer, hStream>>
    /\ UNCHANGED <<hostVars, workerVars, closeVars, dPeer,
                   sendVars, trackerVars, respVars, reqVars, stopVars, listVars,
                   streamOpen, enqLog, peakSends, wire, histVars, pubsubVars, dataVars, probeVars, frameVars, wMsg>>

\* Line 662: p2p.peerListChan <- Peers(), when the channel accepts it.
DiscPublish(n) ==
    /\ Alive
    /\ dPc[n] = "publish"
    /\ dPc' = [dPc EXCEPT ![n] = "idle"]
    /\ published' = published + 1
    /\ UNCHANGED <<hostVars, workerVars, handlerVars, closeVars, dPeer,
                   sendVars, trackerVars, respVars, reqVars, stopVars, found, wireVars, histVars, pubsubVars, dataVars, probeVars, frameVars, wMsg>>

\* ------------------------------------------- rpcMsgWriter / rpcMsgReader
\* A receive that takes the envelope enqueued last.
QueueNewest(w) == queue[w][Len(queue[w])]

\* msg := <-writeQueue (line 228): the envelope received, and what stays in
\* the queue.
QueueHead(w) == Head(queue[w])
QueueRest(w) == Tail(queue[w])

\* The remote side resets the stream of worker w.
StreamReset(w) ==
    /\ Alive
    /\ streamOpen[w]
    /\ streamOpen' = [streamOpen EXCEPT ![w] = FALSE]
    /\ UNCHANGED <<hostVars, workerVars, handlerVars, closeVars, discVars,
                   sendVars, trackerVars, respVars, reqVars, stopVars, listVars,
                   hStream, enqLog, peakSends, wire, histVars, pubsubVars, dataVars, probeVars, frameVars, wMsg>>

\* rpcMsgWriter, line 228: at its select the writer receives the head of
\* the queue.
WriterTake(w) ==
    /\ Alive
    /\ writerPc[w] = "running"
    /\ wMsg[w] = <<>>
    /\ queue[w] # <<>>
    /\ queue' = [queue EXCEPT ![w] = QueueRest(w)]
    /\ wMsg' = [wMsg EXCEPT ![w] = <<QueueHead(w)>>]
    /\ UNCHANGED <<hostVars, procs, wPeer, cancelled, readerPc, writerPc,
                   handlerVars, closeVars, discVars,
                   sendVars, trackerVars, respVars, reqVars, stopVars, listVars,
                   wireVars, histVars, pubsubVars, dataVars, probeVars, frameVars>>

\* rpcMsgWriter, lines 230-241: encode the envelope and write it to the
\* stream.  s.Write succeeds on an open stream and fails on a reset one;
\* the error is logged and the envelope is gone either way; the writer is
\* back at its select.
WriterWrite(w) ==
    /\ Alive
    /\ writerPc[w] = "running"
    /\ wMsg[w] # <<>>
    /\ wire' = [wire EXCEPT ![w] = IF streamOpen[w] THEN Append(@, wMsg[w][1]) ELSE @]
    /\ wMsg' = [wMsg EXCEPT ![w] = <<>>]
    /\ UNCHANGED <<hostVars, workerVars, handlerVars, closeVars, discVars,
                   sendVars, trackerVars, respVars, reqVars, stopVars, listVars,
                   hStream, streamOpen, enqLog, peakSends, histVars, pubsubVars, dataVars, probeVars, frameVars>>

\* rpcMsgWriter, lines 242-244: the writer is at its select and ctx.Done()
\* is ready; the writer returns.
WriterExit(w) ==
    /\ Alive
    /\ writerPc[w] = "running"
    /\ wMsg[w] = <<>>
    /\ cancelled[w]
    /\ writerPc' = [writerPc EXCEPT ![w] = "exited"]
    /\ UNCHANGED <<hostVars, procs, wPeer, queue, cancelled, readerPc,
                   handlerVars, closeVars, discVars,
                   sendVars, trackerVars, respVars, reqVars, stopVars, listVars, wireVars, histVars, pubsubVars, dataVars, probeVars, frameVars, wMsg>>

\* rpcMsgReader, lines 218-220: ctx.Done() is ready; the reader returns.
ReaderExit(w) ==
    /\ Alive
    /\ readerPc[w] = "running"
    /\ cancelled[w]
    /\ readerPc' = [readerPc EXCEPT ![w] = "exited"]
    /\ UNCHANGED <<hostVars, procs, wPeer, queue, cancelled, writerPc,
                   handlerVars, closeVars, discVars,
                   sendVars, trackerVars, respVars, reqVars, stopVars, listVars, wireVars, histVars, pubsubVars, dataVars, probeVars, frameVars, wMsg>>

\* ------------------------------------------- delimReader and the reader
\* What buf.ReadBytes returns: a frame (bytes ending in the delimiter, no
\* error), the rest of a stream that ended (bytes and an error), or nothing
\* and an error.
ReadResults == {"frame", "partial", "eof"}

\* delimReader, lines 793-805: one ReadBytes of the bufio.Reader.  A read
\* of the stream can bring several frames into the buffer, and the frames
\* in the buffer are returned without an error whatever has happened to the
\* stream since (more: another whole frame is left in the buffer).  With an
\* empty buffer the stream gives a frame while it is open and an error once
\* it is closed.  With bytes the framer goes on to send them on ch; with no
\* bytes and an error it breaks and closes ch.
FramerRead(w, res, more) ==
    /\ Alive
    /\ fPc[w] = "read"
    /\ IF fMore[w] THEN res = "frame" ELSE (res = "frame") = streamOpen[w]
    /\ more => res = "frame"
    /\ fPc' = [fPc EXCEPT ![w] = IF res = "eof" THEN "exited" ELSE "send"]
    /\ fErr' = [fErr EXCEPT ![w] = (res # "frame")]
    /\ fMore' = [fMore EXCEPT ![w] = more]
    /\ UNCHANGED <<hostVars, workerVars, handlerVars, closeVars, discVars,
                   sendVars, trackerVars, respVars, reqVars, stopVars, listVars,
                   wireVars, histVars, pubsubVars, dataVars, probeVars, readerSpun, wMsg>>

\* The reader loop of w is at its select and can receive from readerChan.
ReaderReceives(w) == readerPc[w] = "running"

\* delimReader, lines 797-803 with rpcMsgReader, lines 213-217: ch is
\* unbuffered, so ch <- bytes completes when the reader loop of w receives;
\* the bytes are not empty and the loop starts a msgProcessor goroutine
\* with them (the rest of the step, in JunkArrive, ReqArrive and
\* RespArrive).  After bytes that came with an error the framer breaks and
\* closes ch.
FramerSend(w) ==
    /\ fPc[w] = "send"
    /\ ReaderReceives(w)
    /\ fPc' = [fPc EXCEPT ![w] = IF fErr[w] THEN "exited" ELSE "read"]
    /\ fErr' = [fErr EXCEPT ![w] = FALSE]

\* rpcMsgReader, lines 213-217 with msgProcessor, lines 180-185 and 205:
\* the reader of worker w takes bytes that do not decode to an rpcMsg, or
\* whose type is neither request nor response; the msgProcessor goroutine
\* logs and ends.
JunkArrive(w) ==
    /\ Alive
    /\ FramerSend(w)
    /\ UNCHANGED <<hostVars, workerVars, handlerVars, closeVars, discVars,
                   sendVars, trackerVars, respVars, reqVars, stopVars, listVars,
                   wireVars, histVars, pubsubVars, dataVars, probeVars,
                   fMore, readerSpun, wMsg>>

\* rpcMsgReader, lines 211-216: ch is closed, the receive is ready and
\* gives nil; the loop iterates (again and again: the later iterations
\* change nothing).
ReaderSpin(w) ==
    /\ Alive
    /\ readerPc[w] = "running"
    /\ fPc[w] = "exited"
    /\ ~readerSpun[w]
    /\ readerSpun' = [readerSpun EXCEPT ![w] = TRUE]
    /\ UNCHANGED <<hostVars, workerVars, handlerVars, closeVars, discVars,
                   sendVars, trackerVars, respVars, reqVars, stopVars, listVars,
                   wireVars, histVars, pubsubVars, dataVars, probeVars,
                   fPc, fErr, fMore, wMsg>>

NextFramer ==
    \/ \E w \in W, res \in ReadResults, more \in BOOLEAN : FramerRead(w, res, more)
    \/ \E w \in W : JunkArrive(w)
    \/ \E w \in W : ReaderSpin(w)

\* ------------------------------------------------------------ sendRequest
\* A queue that never refuses a send.
HasRoomAlways(w) == TRUE

\* The requests of Sends among the envelopes of a queue, and the larger of
\* two numbers.
RequestsIn(q) == Cardinality({i \in 1..Len(q) : q[i].kind = "request"})
Larger(a, b) == IF a >= b THEN a ELSE b

\* A send on WriteQueue (make(chan rpcMsg, 200), line 162) proceeds when
\* the buffer holds fewer envelopes than its capacity.
HasRoom(w) == Len(queue[w]) < QueueCap

\* A select that never takes the closed branch, and one that always does.
LatchNeverSeenClosed(s) == FALSE
LatchAlwaysSeenClosed(s) == TRUE

\* The select with a default branch on closeSig (lines 339-343 and
\* 406-410): TRUE when the latch is seen closed.
LatchClosed(s) == closeSig[s]

\* sendRequest, lines 358-388: mint the id, encode the request (encOK: the
\* request data can be encoded), create the tracker and Set it in p2p.reqs.
SendStart(s, p, method, x, encOK) ==
    /\ Alive
    /\ sPc[s] = "idle"
    /\ \A u \in AllSends : u < s => sPc[u] # "idle"
    /\ sPeer' = [sPeer EXCEPT ![s] = p]
    /\ IF encOK
       THEN /\ reqs' = reqs \cup {s}
            /\ sPc' = [sPc EXCEPT ![s] = "lookup"]
            /\ sResult' = sResult
            /\ sMethod' = [sMethod EXCEPT ![s] = method]
            /\ sArg' = [sArg EXCEPT ![s] = x]
       ELSE /\ reqs' = reqs
            /\ sPc' = [sPc EXCEPT ![s] = "returned"]
            /\ sResult' = [sResult EXCEPT ![s] = "encodeError"]
            /\ UNCHANGED <<sMethod, sArg>>
    /\ UNCHANGED <<hostVars, workerVars, handlerVars, closeVars, discVars, sW,
                   trackerVars, respVars, reqVars, stopVars, listVars, wireVars,
                   histVars, pubsubVars, sOut, rData, probeVars, frameVars, wMsg>>

\* A lookup that, finding no worker, starts the timeout and waits for it.
SendLookupWaits(s) ==
    /\ Alive
    /\ sPc[s] = "lookup"
    /\ IF procs[sPeer[s]] # NoWorker
       THEN /\ sW' = [sW EXCEPT ![s] = procs[sPeer[s]]]
            /\ sPc' = [sPc EXCEPT ![s] = "enqueue"]
            /\ tPc' = tPc
       ELSE /\ sW' = sW
            /\ sPc' = [sPc EXCEPT ![s] = "wait"]
            /\ tPc' = [tPc EXCEPT ![s] = "sleep"]
    /\ UNCHANGED <<hostVars, workerVars, handlerVars, closeVars, discVars,
                   sPeer, sResult, reqs, closeSig, closeCount, delivered, chansClosed,
                   respVars, reqVars, stopVars, listVars, wireVars, histVars, pubsubVars, dataVars, probeVars, frameVars, wMsg>>

\* sendRequest, lines 392-397: Get the peer's worker; return the "peer
\* writer not found" error when there is none.
SendLookup(s) ==
    /\ Alive
    /\ sPc[s] = "lookup"
    /\ IF procs[sPeer[s]] # NoWorker
       THEN /\ sW' = [sW EXCEPT ![s] = procs[sPeer[s]]]
            /\ sPc' = [sPc EXCEPT ![s] = "enqueue"]
            /\ sResult' = sResult
       ELSE /\ sW' = sW
            /\ sPc' = [sPc EXCEPT ![s] = "returned"]
            /\ sResult' = [sResult EXCEPT ![s] = "writerNotFound"]
    /\ UNCHANGED <<hostVars, workerVars, handlerVars, closeVars, discVars,
                   sPeer, reqs, trackerVars, respVars, reqVars, stopVars, listVars, wireVars, histVars, pubsubVars, dataVars, probeVars, frameVars, wMsg>>

\* sendRequest, lines 399-421: msgProcessor.WriteQueue <- msg blocks while
\* the queue is full; after it the timeout goroutine is started and the
\* removal of the tracker is deferred.
SendEnqueue(s) ==
    /\ Alive
    /\ sPc[s] = "enqueue"
    /\ HasRoom(sW[s])
    /\ queue' = [queue EXCEPT ![sW[s]] = Append(@, Envelope(s, "request", sMethod[s], "", MarshalPingReq(sArg[s])))]
    /\ enqLog' = [enqLog EXCEPT ![sW[s]] = Append(@, Envelope(s, "request", sMethod[s], "", MarshalPingReq(sArg[s])))]
    /\ peakSends' = [peakSends EXCEPT ![sW[s]] = Larger(@, RequestsIn(queue[sW[s]]) + 1)]
    /\ tPc' = [tPc EXCEPT ![s] = "sleep"]
    /\ sPc' = [sPc EXCEPT ![s] = "wait"]
    /\ UNCHANGED <<hostVars, procs, wPeer, cancelled, readerPc, writerPc,
                   handlerVars, closeVars, discVars, sPeer, sW, sResult, reqs,
                   closeSig, closeCount, delivered, chansClosed,
                   respVars, reqVars, stopVars, listVars,
                   hStream, streamOpen, wire, histVars, pubsubVars, dataVars, probeVars, frameVars, wMsg>>

\* sendRequest, line 421 (deferred): reqs.Remove(msg.ID), then the return.
SendReturn(s) ==
    /\ Alive
    /\ sPc[s] = "received"
    /\ reqs' = reqs \ {s}
    /\ sPc' = [sPc EXCEPT ![s] = "returned"]
    /\ UNCHANGED <<hostVars, workerVars, handlerVars, closeVars, discVars,
                   sPeer, sW, sResult, trackerVars, respVars, reqVars, stopVars, listVars, wireVars, histVars, pubsubVars, dataVars, probeVars, frameVars, wMsg>>

\* ------------------------------------- the timeout goroutine of a Send
\* Lines 403-410: time.Sleep returns; the goroutine returns when it sees
\* the latch closed.
TimerCheck(s) ==
    /\ Alive
    /\ tPc[s] = "sleep"
    /\ tPc' = [tPc EXCEPT ![s] = IF LatchClosed(s) THEN "done" ELSE "close"]
    /\ UNCHANGED <<hostVars, workerVars, handlerVars, closeVars, discVars,
                   sendVars, closeSig, closeCount, delivered, chansClosed,
                   respVars, reqVars, stopVars, listVars, wireVars, histVars, pubsubVars, dataVars, probeVars, frameVars, wMsg>>

\* Line 413: close(reqTracker.closeSig).  Closing a closed channel panics;
\* nothing recovers a panic in this goroutine, so the process ends.
TimerClose(s) ==
    /\ Alive
    /\ tPc[s] = "close"
    /\ closeCount' = [closeCount EXCEPT ![s] = @ + 1]
    /\ IF closeSig[s]
       THEN /\ crashed' = TRUE
            /\ tPc' = [tPc EXCEPT ![s] = "panicked"]
            /\ closeSig' = closeSig
       ELSE /\ crashed' = crashed
            /\ tPc' = [tPc EXCEPT ![s] = "send"]
            /\ closeSig' = [closeSig EXCEPT ![s] = TRUE]
    /\ UNCHANGED <<started, connected, workerVars, handlerVars, closeVars,
                   discVars, sendVars, delivered, chansClosed,
                   respVars, reqVars, stopVars, listVars, wireVars, histVars, pubsubVars, dataVars, probeVars, frameVars, wMsg>>

\* Line 415 with lines 429-430: reqTracker.err <- timeout error, received
\* by the caller's select.
TimerSend(s) ==
    /\ Alive
    /\ tPc[s] = "send"
    /\ sPc[s] = "wait"
    /\ delivered' = [delivered EXCEPT ![s] = @ + 1]
    /\ sResult' = [sResult EXCEPT ![s] = "timeout"]
    /\ sPc' = [sPc EXCEPT ![s] = "received"]
    /\ tPc' = [tPc EXCEPT ![s] = "closeChans"]
    /\ UNCHANGED <<hostVars, workerVars, handlerVars, closeVars, discVars,
                   sPeer, sW, reqs, closeSig, closeCount, chansClosed,
                   respVars, reqVars, stopVars, listVars, wireVars, histVars, pubsubVars, dataVars, probeVars, frameVars, wMsg>>

\* Lines 416-417: close(resp); close(err).
TimerCloseChans(s) ==
    /\ Alive
    /\ tPc[s] = "closeChans"
    /\ chansClosed' = [chansClosed EXCEPT ![s] = TRUE]
    /\ tPc' = [tPc EXCEPT ![s] = "done"]
    /\ UNCHANGED <<hostVars, workerVars, handlerVars, closeVars, discVars,
                   sendVars, closeSig, closeCount, delivered,
                   respVars, reqVars, stopVars, listVars, wireVars, histVars, pubsubVars, dataVars, probeVars, frameVars, wMsg>>

\* ------------------------------ msgProcessor on a Response envelope
\* The Responses a peer may send, as far as the model tells them apart: an
\* error, a result that decodes into the caller's responseData, a result
\* that does not.
RespInputs ==
    { [err |-> TRUE, data |-> <<Null>>],
      [err |-> FALSE, data |-> MarshalPingResp(HandlerPing(Hello))],
      [err |-> FALSE, data |-> <<"{">>] }

\* The Responses whose data decodes.
DecodableInputs == {in \in RespInputs : in.err \/ UnmarshalPingResp(in.data).ok}

\* rpcMsgReader, lines 213-217 and 196-204: the reader of worker w takes
\* from the framer a frame that decodes to a Response envelope with the
\* given id and starts a msgProcessor goroutine with it (in.err: Response.Error is not empty,
\* in.data: Response.Data).
RespArrive(r, w, id, in) ==
    /\ Alive
    /\ rPc[r] = "idle"
    /\ \A u \in AllResps : u < r => rPc[u] # "idle"
    /\ FramerSend(w)
    /\ rPc' = [rPc EXCEPT ![r] = "get"]
    /\ rId' = [rId EXCEPT ![r] = id]
    /\ rErr' = [rErr EXCEPT ![r] = in.err]
    /\ rData' = [rData EXCEPT ![r] = in.data]
    /\ rLate' = [rLate EXCEPT ![r] = (sResult[id] = "timeout")]
    /\ UNCHANGED <<hostVars, workerVars, handlerVars, closeVars, discVars,
                   sendVars, trackerVars, rFound, rPanicked, reqVars, stopVars,
                   listVars, wireVars, histVars, pubsubVars, sMethod, sArg, sOut, probeVars, fMore, readerSpun, wMsg>>

\* A table that gives the tracker of some Send in progress, whatever the id.
TrackerOfAnySend(id) == IF reqs = {} THEN id ELSE CHOOSE s \in reqs : \A u \in reqs : s <= u

\* responseHandler, lines 330 and 336: the tracker p2p.reqs.Get(id) gives is
\* the one stored under id, which is the tracker of the Send that minted id
\* (trackers are numbered as their Sends).
Tracker(id) == id

\* responseHandler, lines 330-334: look the tracker up by id.
RespGet(r) ==
    /\ Alive
    /\ rPc[r] = "get"
    /\ rFound' = [rFound EXCEPT ![r] = rId[r] \in reqs]
    /\ rPc' = [rPc EXCEPT ![r] = IF rId[r] \in reqs THEN "check" ELSE "done"]
    /\ UNCHANGED <<hostVars, workerVars, handlerVars, closeVars, discVars,
                   sendVars, trackerVars, rId, rErr, rLate, rPanicked,
                   reqVars, stopVars, listVars, wireVars, histVars, pubsubVars, dataVars, probeVars, frameVars, wMsg>>

\* responseHandler, lines 339-343: return when the latch is seen closed.
RespCheck(r) ==
    /\ Alive
    /\ rPc[r] = "check"
    /\ rPc' = [rPc EXCEPT ![r] = IF LatchClosed(Tracker(rId[r])) THEN "done" ELSE "close"]
    /\ UNCHANGED <<hostVars, workerVars, handlerVars, closeVars, discVars,
                   sendVars, trackerVars, rId, rErr, rLate, rFound, rPanicked,
                   reqVars, stopVars, listVars, wireVars, histVars, pubsubVars, dataVars, probeVars, frameVars, wMsg>>

\* responseHandler, line 345: close(req.closeSig).  Closing a closed
\* channel panics; the deferred recover of msgProcessor (lines 174-178)
\* catches it and the goroutine ends.
RespClose(r) ==
    /\ Alive
    /\ rPc[r] = "close"
    /\ closeCount' = [closeCount EXCEPT ![Tracker(rId[r])] = @ + 1]
    /\ IF closeSig[Tracker(rId[r])]
       THEN /\ rPanicked' = [rPanicked EXCEPT ![r] = TRUE]
            /\ rPc' = [rPc EXCEPT ![r] = "done"]
            /\ closeSig' = closeSig
       ELSE /\ rPanicked' = rPanicked
            /\ rPc' = [rPc EXCEPT ![r] = "send"]
            /\ closeSig' = [closeSig EXCEPT ![Tracker(rId[r])] = TRUE]
    /\ UNCHANGED <<hostVars, workerVars, handlerVars, closeVars, discVars,
                   sendVars, delivered, chansClosed, tPc,
                   rId, rErr, rLate, rFound, reqVars, stopVars, listVars, wireVars, histVars, pubsubVars, dataVars, probeVars, frameVars, wMsg>>

\* The outcome of Send on a response: the peer's error, or the result of
\* json.Unmarshal of the response data into responseData (lines 423-428).
ResponseOutcome(hasErr, decodes) ==
    IF hasErr THEN "peerError" ELSE IF decodes THEN "ok" ELSE "decodeError"

\* responseHandler, lines 347-351 with sendRequest, lines 423-430: the
\* send on req.err or req.resp, received by the caller's select, which
\* decodes the data into responseData.
RespSend(r) ==
    /\ Alive
    /\ rPc[r] = "send"
    /\ sPc[Tracker(rId[r])] = "wait"
    /\ delivered' = [delivered EXCEPT ![Tracker(rId[r])] = @ + 1]
    /\ LET data == UnmarshalPingResp(rData[r]) IN
          /\ sResult' = [sResult EXCEPT ![Tracker(rId[r])] = ResponseOutcome(rErr[r], data.ok)]
          /\ sOut' = [sOut EXCEPT ![Tracker(rId[r])] = IF ~rErr[r] /\ data.ok THEN data.val ELSE @]
    /\ sPc' = [sPc EXCEPT ![Tracker(rId[r])] = "received"]
    /\ sFrom' = [sFrom EXCEPT ![Tracker(rId[r])] = r]
    /\ rPc' = [rPc EXCEPT ![r] = "closeChans"]
    /\ UNCHANGED <<hostVars, workerVars, handlerVars, closeVars, discVars,
                   sPeer, sW, reqs, closeSig, closeCount, chansClosed, tPc,
                   rId, rErr, rLate, rFound, rPanicked, reqVars, stopVars,
                   listVars, wireVars, sCut, pubsubVars, sMethod, sArg, rData, probeVars, frameVars, wMsg>>

\* responseHandler, lines 353-354: close(req.resp); close(req.err).
RespCloseChans(r) ==
    /\ Alive
    /\ rPc[r] = "closeChans"
    /\ chansClosed' = [chansClosed EXCEPT ![Tracker(rId[r])] = TRUE]
    /\ rPc' = [rPc EXCEPT ![r] = "done"]
    /\ UNCHANGED <<hostVars, workerVars, handlerVars, closeVars, discVars,
                   sendVars, closeSig, closeCount, delivered, tPc,
                   rId, rErr, rLate, rFound, rPanicked, reqVars, stopVars, listVars, wireVars, histVars, pubsubVars, dataVars, probeVars, frameVars, wMsg>>

\* ------------------------------- msgProcessor on a Request envelope
\* A Request envelope, by what decides its handling: whether its payload
\* decodes into rpcPayloadRequest, its method, whether its data decodes into
\* the handler's RequestStruct, and what the handler does with it ("ok": it
\* returns a result, "err": it returns an error or a result that cannot be
\* encoded, "panic": it panics), and the text its data decodes to.  Fields
\* the code never reaches are fixed.
ReqInputs ==
    { [payloadOK |-> FALSE, method |-> "ping", dataOK |-> TRUE, handler |-> "ok", arg |-> Hello],
      [payloadOK |-> TRUE, method |-> "unknown", dataOK |-> TRUE, handler |-> "ok", arg |-> Hello],
      [payloadOK |-> TRUE, method |-> "ping", dataOK |-> FALSE, handler |-> "ok", arg |-> Hello],
      [payloadOK |-> TRUE, method |-> "ping", dataOK |-> TRUE, handler |-> "ok", arg |-> Hello],
      [payloadOK |-> TRUE, method |-> "ping", dataOK |-> TRUE, handler |-> "err", arg |-> Hello],
      [payloadOK |-> TRUE, method |-> "ping", dataOK |-> TRUE, handler |-> "panic", arg |-> Hello] }

\* A ping request that decodes and whose handler returns a result.
PingRequest == [payloadOK |-> TRUE, method |-> "ping", dataOK |-> TRUE, handler |-> "ok", arg |-> Hello]

\* rpcMsgReader, lines 187-195: requestHandler is called only when the
\* payload decodes.
ReachesRequestHandler(in) == in.payloadOK

\* requestHandler, lines 261-296: the handler is invoked when it is found
\* (hit: getRPCHandler found it at line 261) and the data decodes.
InvokesHandler(in, hit) ==
    ReachesRequestHandler(in) /\ hit /\ in.dataOK

\* msgProcessor with requestHandler: TRUE when a Response is composed and
\* sent to the write queue.  A panic of the handler unwinds requestHandler
\* to the deferred recover of msgProcessor (lines 174-178), which logs.
ComposesResponse(in, hit) ==
    /\ ReachesRequestHandler(in)
    /\ InvokesHandler(in, hit) => in.handler # "panic"

\* requestHandler: the Error field of the Response it composes (lines 264,
\* 281, 309), up to the text of the wrapped error, which is left out.
ResponseError(in, hit) ==
    IF ~hit
    THEN "RPC handler for method '" \o in.method \o "' not found"
    ELSE IF ~in.dataOK THEN "failed to decode data struct: "
    ELSE IF in.handler = "err" THEN "Internal error: "
    ELSE ""

\* A response without its data.
ResponseDataNil(in, hit, result) == <<>>

\* requestHandler, lines 308-313: response.Data is the encoded result of
\* the handler when there is no error.
ResponseData(in, hit, result) == IF ResponseError(in, hit) = "" THEN result ELSE <<>>

\* requestHandler, lines 299-301: json.Marshal of what HandlerPing returns
\* for the decoded data.
HandlerResult(in) == MarshalPingResp(HandlerPing(in.arg))

\* requestHandler, lines 253-320: the rpcMsg it composes before it sends
\* it on the write queue.
ResponseEnvelope(id, in, hit) ==
    Envelope(id, "response", "", ResponseError(in, hit),
             ResponseData(in, hit, HandlerResult(in)))

\* rpcMsgReader, lines 213-217: the reader of worker w takes from the
\* framer a frame that decodes to a Request envelope and starts a
\* msgProcessor goroutine with it.
ReqArrive(q, w, in) ==
    /\ Alive
    /\ qPc[q] = "idle"
    /\ \A u \in Q : u < q => qPc[u] # "idle"
    /\ FramerSend(w)
    /\ qPc' = [qPc EXCEPT ![q] = "handle"]
    /\ qW' = [qW EXCEPT ![q] = w]
    /\ qIn' = [qIn EXCEPT ![q] = in]
    /\ UNCHANGED <<hostVars, workerVars, handlerVars, closeVars, discVars,
                   sendVars, trackerVars, respVars, qEnq, qInvoked, qFound, stopVars, listVars, wireVars, histVars, pubsubVars, dataVars, probeVars, fMore, readerSpun, wMsg>>

\* msgProcessor, lines 180-195, and requestHandler up to its send on the
\* write queue: decode, look the handler up (look: what the read of
\* p2p.rpcHandlers gives, line 134), decode the data, call the handler,
\* compose the Response.  The read of the map is the one step of the
\* goroutine that another goroutine can affect.
ReqHandle(q, look) ==
    /\ Alive
    /\ qPc[q] = "handle"
    /\ look \in (IF ReachesRequestHandler(qIn[q]) THEN getRPCHandler(qIn[q].method)
                                                 ELSE {"notFound"})
    /\ crashed' = (look = "fatal")
    /\ qFound' = [qFound EXCEPT ![q] = (look = "found")]
    /\ qInvoked' = [qInvoked EXCEPT ![q] = look # "fatal" /\ InvokesHandler(qIn[q], look = "found")]
    /\ qPc' = [qPc EXCEPT ![q] =
                 IF look = "fatal" THEN "handle"
                 ELSE IF ComposesResponse(qIn[q], look = "found") THEN "enqueue" ELSE "done"]
    /\ UNCHANGED <<started, connected, workerVars, handlerVars, closeVars, discVars,
                   sendVars, trackerVars, respVars, qIn, qW, qEnq, stopVars, listVars, wireVars, histVars, pubsubVars, dataVars, probeVars, frameVars, wMsg>>

\* requestHandler, lines 273, 291, 324: writeQueue <- msg blocks while the
\* queue is full.  msg was composed before the send, from what the lookup
\* of line 261 gave: it carries the error, or the encoded result of the
\* handler (line 311).
ReqEnqueue(q) ==
    /\ Alive
    /\ qPc[q] = "enqueue"
    /\ HasRoom(qW[q])
    /\ queue' = [queue EXCEPT ![qW[q]] =
                    Append(@, ResponseEnvelope(RemoteId(q), qIn[q], qFound[q]))]
    /\ enqLog' = [enqLog EXCEPT ![qW[q]] =
                    Append(@, ResponseEnvelope(RemoteId(q), qIn[q], qFound[q]))]
    /\ qEnq' = [qEnq EXCEPT ![q] = Append(@, ResponseError(qIn[q], qFound[q]))]
    /\ qPc' = [qPc EXCEPT ![q] = "done"]
    /\ UNCHANGED <<hostVars, procs, wPeer, cancelled, readerPc, writerPc,
                   handlerVars, closeVars, discVars,
                   sendVars, trackerVars, respVars, qIn, qW, qInvoked, qFound, stopVars, listVars,
                   hStream, streamOpen, peakSends, wire, histVars, pubsubVars, dataVars, probeVars, frameVars, wMsg>>

\* ------------------------------------------- the peer at the other end
\* The peer runs the same program and has returned from StartServer: its
\* p2p.rpcHandlers holds the ping handler (line 694) and nothing writes it.
PeerHandlers == {"ping"}

\* requestHandler of the peer, lines 308-324: the frame of the Response to
\* request id (in: what the dispatcher saw, hit: what its lookup gave),
\* nothing when no Response is sent.
PeerResponse(id, in, hit) ==
    IF ComposesResponse(in, hit)
    THEN Frame(MarshalMsg(id, "response",
                 MarshalResponse(ResponseError(in, hit),
                     ResponseData(in, hit, HandlerResult(in)))))
    ELSE <<>>

\* requestHandler, lines 278-279: json.Unmarshal(request.Data, &data) with
\* data an interface that holds a pointer to a new RequestStruct.  An
\* object is decoded into the struct; null sets data itself to nil, with
\* no error.
DataOf(raw, req) ==
    [ok |-> req.ok, val |-> req.val, nil |-> Valid(raw) /\ raw[SkipSpace(raw, 1)] = Null]
UnmarshalData(raw) == DataOf(raw, UnmarshalPingReq(raw))

\* What HandlerPing does when it is called with a nil request: it returns
\* an error or it panics.
NilOutcomes == {"err", "panic"}

\* requestHandler of the peer, lines 259-296: the handler is looked up by
\* rq.method, the data decoded into its RequestStruct, the handler called.
PeerHandlerCall(id, rq, arg, onNil) ==
    PeerResponse(id, [payloadOK |-> rq.ok, method |-> rq.method,
                      dataOK |-> arg.ok, handler |-> IF arg.nil THEN onNil ELSE "ok",
                      arg |-> arg.val],
                 rq.method \in PeerHandlers)
PeerRequestHandler(id, rq, onNil) == PeerHandlerCall(id, rq, UnmarshalData(rq.data), onNil)

\* msgProcessor of the peer, lines 186-194: a Request envelope goes to
\* requestHandler.
PeerMsgProcessor(m, onNil) ==
    IF m.ok /\ m.kind = "request"
    THEN PeerRequestHandler(m.id, UnmarshalRequest(m.payload), onNil)
    ELSE <<>>

\* What the peer answers to a frame.
PeerReply(frame, onNil) == PeerMsgProcessor(UnmarshalMsg(frame), onNil)

\* The bytes written to the stream of worker w.
RECURSIVE Concat(_)
Concat(frames) == IF frames = <<>> THEN <<>> ELSE Head(frames) \o Concat(Tail(frames))
WireBytes(w) == Concat([k \in 1..Len(wire[w]) |-> FrameOf(wire[w][k])])

\* The Send whose id has the given text (0: none).
SendOfId(txt) ==
    IF \E s \in AllSends : Text(ToString(s)) = txt
    THEN CHOOSE s \in AllSends : Text(ToString(s)) = txt
    ELSE 0

\* msgProcessor, lines 180-185 and 195-204: a frame read as a Response
\* envelope (id: the Send it names, err: Response.Error is not empty).
ResponseMsg(m, rp) ==
    [ok |-> m.ok /\ m.kind = "response" /\ rp.ok, id |-> SendOfId(m.id),
     err |-> (rp.error # ""), data |-> rp.data]
DecodeResponse(m) == ResponseMsg(m, UnmarshalResponse(m.payload))
ReadResponse(frame) == DecodeResponse(UnmarshalMsg(frame))

\* The reader takes the Response d of the peer; a peer answers a request
\* once.
ResponseTaken(r, w, d) ==
    /\ d.ok
    /\ d.id \in AllSends
    /\ \A u \in AllResps : rPc[u] # "idle" => rId[u] # d.id
    /\ RespArrive(r, w, d.id, [err |-> d.err, data |-> d.data])

\* The peer reads the i-th frame of the stream of worker w and answers it;
\* the reader of w takes the frame of the answer.
PeerAnswers(r, w, i) ==
    /\ readerPc[w] = "running"
    /\ i \in 1..Len(Frames(WireBytes(w)))
    /\ \E onNil \in NilOutcomes :
          ResponseTaken(r, w, ReadResponse(PeerReply(Frames(WireBytes(w))[i], onNil)))

\* -------------------------------------------------- createClientForPeer
\* The last value of tries with which a failed Ping is tried again (line 626).
LastRetry == 19

\* A probe that may always try once more than the code does.
MayRetryOnceMore(tries) == tries < LastRetry + 1

\* createClientForPeer, line 626: tries < 19.
MayRetry(tries) == tries < LastRetry

\* How a call of client.Ping() ends: no error, an error, a panic.
PingOutcomes == {"ok", "err", "panic"}

\* createClientForPeer, lines 603-622: the call starts, err = nil, client is
\* built, tries = 0.
ProbeStart(b, p) ==
    /\ Alive
    /\ bPc[b] = "idle"
    /\ \A u \in B : u < b => bPc[u] # "idle"
    /\ bPc' = [bPc EXCEPT ![b] = "ping"]
    /\ bPeer' = [bPeer EXCEPT ![b] = p]
    /\ bTries' = [bTries EXCEPT ![b] = 0]
    /\ bClient' = [bClient EXCEPT ![b] = TRUE]
    /\ bErr' = [bErr EXCEPT ![b] = FALSE]
    /\ UNCHANGED <<hostVars, workerVars, handlerVars, closeVars, discVars,
                   sendVars, trackerVars, respVars, reqVars, stopVars, listVars,
                   wireVars, histVars, pubsubVars, dataVars, bPings, bLast, frameVars, wMsg>>

\* createClientForPeer, lines 623-636 and the deferred function, lines
\* 608-615: one client.Ping() and what follows it.  No error: break and
\* return client, nil.  An error: go to sleep while tries < 19, return
\* nil, err otherwise.  A panic: recover sets err and the call
\* returns with the named results as they are.
ProbePing(b, out) ==
    /\ Alive
    /\ bPc[b] = "ping"
    /\ bPings' = [bPings EXCEPT ![b] = @ + 1]
    /\ bLast' = [bLast EXCEPT ![b] = out]
    /\ bErr' = [bErr EXCEPT ![b] = (out # "ok")]
    /\ IF out = "err" /\ MayRetry(bTries[b])
       THEN /\ bPc' = [bPc EXCEPT ![b] = "sleep"]
            /\ UNCHANGED bClient
       ELSE /\ bPc' = [bPc EXCEPT ![b] = "returned"]
            /\ bClient' = [bClient EXCEPT ![b] = (out # "err")]
    /\ UNCHANGED <<hostVars, workerVars, handlerVars, closeVars, discVars,
                   sendVars, trackerVars, respVars, reqVars, stopVars, listVars,
                   wireVars, histVars, pubsubVars, dataVars, bPeer, bTries, frameVars, wMsg>>

\* createClientForPeer, lines 627-629: the 200 ms have passed, tries++,
\* continue.
ProbeWake(b) ==
    /\ Alive
    /\ bPc[b] = "sleep"
    /\ bTries' = [bTries EXCEPT ![b] = @ + 1]
    /\ bPc' = [bPc EXCEPT ![b] = "ping"]
    /\ UNCHANGED <<hostVars, workerVars, handlerVars, closeVars, discVars,
                   sendVars, trackerVars, respVars, reqVars, stopVars, listVars,
                   wireVars, histVars, pubsubVars, dataVars,
                   bPeer, bPings, bLast, bClient, bErr, frameVars, wMsg>>

NextProbe ==
    \/ \E b \in B, p \in Peers : ProbeStart(b, p)
    \/ \E b \in B, out \in PingOutcomes : ProbePing(b, out)
    \/ \E b \in B : ProbeWake(b)

\* The bring-up probes alone.
SpecProbe == Init /\ [][NextProbe]_vars

\* ------------------------------------------------ the stopper of Start
\* A call of the stopper returned by the n-th StartServer, k = <<n, j>>.  The
\* stopper returned with the error of Listen (line 701) returns nil at once.
StopCall(k) ==
    /\ Alive
    /\ started[k[1]] \in {"ok", "listenErr"}
    /\ kPc[k] = "idle"
    /\ \A j \in 1..MaxStops : j < k[2] => kPc[<<k[1], j>>] # "idle"
    /\ kPc' = [kPc EXCEPT ![k] = IF started[k[1]] = "ok" THEN "pubsub" ELSE "returned"]
    /\ UNCHANGED <<hostVars, workerVars, handlerVars, closeVars, discVars,
                   sendVars, trackerVars, respVars, reqVars, pubsubCancelled, pPc, listVars, wireVars, histVars, pubsubVars, dataVars, probeVars, frameVars, wMsg>>

\* Line 714: pubsubStopper() cancels the context of the pubsub processor
\* (lines 495-499); cancelling twice is allowed.
StopPubsub(k) ==
    /\ Alive
    /\ kPc[k] = "pubsub"
    /\ pubsubCancelled' = [pubsubCancelled EXCEPT ![k[1]] = TRUE]
    /\ kPc' = [kPc EXCEPT ![k] = "discovery"]
    /\ UNCHANGED <<hostVars, workerVars, handlerVars, closeVars, discVars,
                   sendVars, trackerVars, respVars, reqVars, pPc, listVars, wireVars, histVars, pubsubVars, dataVars, probeVars, frameVars, wMsg>>

\* Line 715 with lines 665-667: peerDiscoveryStopper() sends on the
\* unbuffered stopSignal; the discovery loop receives it in its select and
\* returns.
StopDiscovery(k) ==
    /\ Alive
    /\ kPc[k] = "discovery"
    /\ dPc[k[1]] = "idle"
    /\ dPc' = [dPc EXCEPT ![k[1]] = "exited"]
    /\ kPc' = [kPc EXCEPT ![k] = "serClose"]
    /\ UNCHANGED <<hostVars, workerVars, handlerVars, closeVars, dPeer,
                   sendVars, trackerVars, respVars, reqVars, pubsubCancelled, pPc, listVars, wireVars, histVars, pubsubVars, dataVars, probeVars, frameVars, wMsg>>

\* Line 716: ser.Close() stops the mDNS service.
StopSerClose(k) ==
    /\ Alive
    /\ kPc[k] = "serClose"
    /\ kPc' = [kPc EXCEPT ![k] = "hostClose"]
    /\ UNCHANGED <<hostVars, workerVars, handlerVars, closeVars, discVars,
                   sendVars, trackerVars, respVars, reqVars, pubsubCancelled, pPc, listVars, wireVars, histVars, pubsubVars, dataVars, probeVars, frameVars, wMsg>>

\* Line 717: host.Close() is called.  The host stops listening and starts
\* to close its connections, each with its streams and its disconnect
\* notification (HostDisconnect).
StopHostClose(k) ==
    /\ Alive
    /\ kPc[k] = "hostClose"
    /\ kPc' = [kPc EXCEPT ![k] = "hostClosing"]
    /\ UNCHANGED <<hostVars, workerVars, handlerVars, closeVars, discVars,
                   sendVars, trackerVars, respVars, reqVars, pubsubCancelled, pPc, listVars, wireVars, histVars, pubsubVars, dataVars, probeVars, frameVars, wMsg>>

\* Line 717: host.Close() returns when the connections are closed, and the
\* stopper returns.
StopClose(k) ==
    /\ Alive
    /\ kPc[k] = "hostClosing"
    /\ \A p \in Peers : ~connected[p]
    /\ kPc' = [kPc EXCEPT ![k] = "returned"]
    /\ UNCHANGED <<hostVars, workerVars, handlerVars, closeVars, discVars,
                   sendVars, trackerVars, respVars, reqVars, pubsubCancelled, pPc, listVars, wireVars, histVars, pubsubVars, dataVars, probeVars, frameVars, wMsg>>

\* pubsubMsgProcessor, lines 446-451: subscription.Next returns the
\* cancellation error and the loop returns.
PubsubExit(n) ==
    /\ Alive
    /\ pPc[n] = "running"
    /\ pubsubCancelled[n]
    /\ pPc' = [pPc EXCEPT ![n] = "exited"]
    /\ UNCHANGED <<hostVars, workerVars, handlerVars, closeVars, discVars,
                   sendVars, trackerVars, respVars, reqVars, kPc, pubsubCancelled, listVars, wireVars, histVars, pubsubVars, dataVars, probeVars, frameVars, wMsg>>

\* ---------------------------------------- BroadcastMsg, pubsubMsgProcessor
\* A message of the subscription: its number in the order of delivery, the
\* peer it was received from (ReceivedFrom), its author, the type of its
\* pubsubMsg, and whether its data and payload decode.
PubsubMessage(n, from, author, type, decodes) ==
    [n |-> n, from |-> from, author |-> author, type |-> type, decodes |-> decodes]

PubsubTypes == {"echo", "unknown"}

\* p2p.pubsubHandlers: empty after NewManager, addPubSubHandler(pubsubEcho,
\* ...) in StartServer.
pubsubHandlers == IF PubsubAdded THEN {"echo"} ELSE {}

\* getPubSubHandler, lines 144-149: the outcomes of the lookup.
getPubSubHandler(type) == MapRead(type, pubsubHandlers, "echo", PubsubWriters # {})

\* A filter that lets every message through.
SelfEchoNever(msg) == FALSE

\* pubsubMsgProcessor, lines 453-456: the message was received from the
\* local peer.
SelfEcho(msg) == msg.from = Local

\* BroadcastMsg, lines 503-519: encode the data and the pubsubMsg (encOK:
\* the data can be encoded; otherwise the error is returned and nothing is
\* published) and Publish.  The host delivers a published message to the
\* local subscription with ReceivedFrom = host.ID().
BroadcastMsg(type, encOK) ==
    /\ Alive
    /\ Len(psLog) < MaxPub
    /\ psLog' = IF encOK
                THEN Append(psLog, PubsubMessage(Len(psLog) + 1, Local, Local, type, TRUE))
                ELSE psLog
    /\ UNCHANGED <<hostVars, workerVars, handlerVars, closeVars, discVars,
                   sendVars, trackerVars, respVars, reqVars, stopVars, listVars,
                   wireVars, histVars, psTaken, psPending, psInvoked, dataVars, probeVars, frameVars, wMsg>>

\* The host receives a message of the topic from the connected peer p, its
\* author, and gives it to the subscription.
PubsubReceive(p, type, decodes) ==
    /\ Alive
    /\ connected[p]
    /\ Len(psLog) < MaxPub
    /\ psLog' = Append(psLog, PubsubMessage(Len(psLog) + 1, p, p, type, decodes))
    /\ UNCHANGED <<hostVars, workerVars, handlerVars, closeVars, discVars,
                   sendVars, trackerVars, respVars, reqVars, stopVars, listVars,
                   wireVars, histVars, psTaken, psPending, psInvoked, dataVars, probeVars, frameVars, wMsg>>

\* pubsubMsgProcessor, lines 446-490: subscription.Next returns the next
\* message to the processor of the n-th StartServer; a message received from the local peer is skipped, any other
\* gets a goroutine.
PubsubNext(n) ==
    /\ Alive
    /\ pPc[n] = "running"
    /\ psTaken < Len(psLog)
    /\ psTaken' = psTaken + 1
    /\ psPending' = IF SelfEcho(psLog[psTaken + 1])
                    THEN psPending
                    ELSE psPending \cup {psLog[psTaken + 1]}
    /\ UNCHANGED <<hostVars, workerVars, handlerVars, closeVars, discVars,
                   sendVars, trackerVars, respVars, reqVars, stopVars, listVars,
                   wireVars, histVars, psLog, psInvoked, dataVars, probeVars, frameVars, wMsg>>

\* The goroutine of lines 458-490: decode the pubsubMsg, look the handler
\* up (look: what the read of p2p.pubsubHandlers gives, line 145), decode
\* the payload, call handler.Func; every failure is logged and the message
\* dropped.  A message that does not decode is dropped before the lookup
\* (line 466) or after it (line 479).
PubsubDispatch(msg, look) ==
    /\ Alive
    /\ msg \in psPending
    /\ look \in (IF msg.decodes THEN getPubSubHandler(msg.type)
                 ELSE {"notFound"} \cup (getPubSubHandler(msg.type) \cap {"fatal"}))
    /\ crashed' = (look = "fatal")
    /\ psPending' = IF look = "fatal" THEN psPending ELSE psPending \ {msg}
    /\ psInvoked' = IF msg.decodes /\ look = "found"
                    THEN psInvoked \cup {msg}
                    ELSE psInvoked
    /\ UNCHANGED <<started, connected, workerVars, handlerVars, closeVars, discVars,
                   sendVars, trackerVars, respVars, reqVars, stopVars, listVars,
                   wireVars, histVars, psLog, psTaken, dataVars, probeVars, frameVars, wMsg>>

\* ------------------------------------------------------- specifications
\* Worker lifecycle: streams, disconnects, the discovery loop, the exit of
\* the worker tasks.
NextLifecycle ==
    \/ \E n \in Starts : StartServer(n)
    \/ \E p \in Peers : HostConnect(p)
    \/ \E t \in HostTasks, p \in Peers : InboundStream(t, p)
    \/ \E t \in HTasks : HGet(t)
    \/ \E t \in HTasks : HInsert(t)
    \/ \E c \in CTasks, p \in Peers : HostDisconnect(c, p)
    \/ \E c \in CTasks : CPop(c)
    \/ \E c \in CTasks : CPublish(c)
    \/ \E c \in CTasks : CStop(c)
    \/ \E n \in Starts, p \in Peers : DiscPeerFound(n, p)
    \/ \E n \in Starts, ok \in BOOLEAN : DiscConnect(n, ok)
    \/ \E n \in Starts, ok \in BOOLEAN : DiscNewStream(n, ok)
    \/ \E n \in Starts : DiscPublish(n)
    \/ \E w \in W : WriterExit(w)
    \/ \E w \in W : ReaderExit(w)

\* The writer draining its queue; a stream reset by the remote side.
NextWriter ==
    \/ \E w \in W : WriterTake(w)
    \/ \E w \in W : WriterWrite(w)
    \/ \E w \in W : StreamReset(w)

\* Send, its tracker, its timeout goroutine and the Response envelopes,
\* which carry one of the given inputs.
NextSendWith(inputs) ==
    \/ \E s \in S, p \in Peers, encOK \in BOOLEAN : SendStart(s, p, "ping", Hello, encOK)
    \/ \E s \in S : SendLookup(s)
    \/ \E s \in S : SendEnqueue(s)
    \/ \E s \in S : SendReturn(s)
    \/ \E s \in S : TimerCheck(s)
    \/ \E s \in S : TimerClose(s)
    \/ \E s \in S : TimerSend(s)
    \/ \E s \in S : TimerCloseChans(s)
    \/ \E r \in R, w \in W, id \in S, in \in inputs : RespArrive(r, w, id, in)
    \/ \E r \in R : RespGet(r)
    \/ \E r \in R : RespCheck(r)
    \/ \E r \in R : RespClose(r)
    \/ \E r \in R : RespSend(r)
    \/ \E r \in R : RespCloseChans(r)

NextSend == NextSendWith(RespInputs)

\* A Send with any method and text, answered by the peer.
Methods == {"ping", "unknown"}
NextRoundTrip ==
    \/ \E s \in S, p \in Peers, method \in Methods, x \in Texts, encOK \in BOOLEAN :
          SendStart(s, p, method, x, encOK)
    \/ \E r \in R, w \in W, i \in 1..(MaxSends + MaxReq) : PeerAnswers(r, w, i)

\* Request envelopes from the peers.
NextRequest ==
    \/ \E q \in Q, w \in W, in \in ReqInputs : ReqArrive(q, w, in)
    \/ \E q \in Q, look \in LookupOutcomes : ReqHandle(q, look)
    \/ \E q \in Q : ReqEnqueue(q)

\* Broadcasts, pubsub messages of the peers and their dispatch.
NextPubsub ==
    \/ \E type \in PubsubTypes, encOK \in BOOLEAN : BroadcastMsg(type, encOK)
    \/ \E p \in Peers, type \in PubsubTypes, decodes \in BOOLEAN : PubsubReceive(p, type, decodes)
    \/ \E n \in Starts : PubsubNext(n)
    \/ \E msg \in psPending, look \in LookupOutcomes : PubsubDispatch(msg, look)

\* The stopper and the pubsub processor.
NextStop ==
    \/ \E k \in K : StopCall(k)
    \/ \E k \in K : StopPubsub(k)
    \/ \E k \in K : StopDiscovery(k)
    \/ \E k \in K : StopSerClose(k)
    \/ \E k \in K : StopHostClose(k)
    \/ \E k \in K : StopClose(k)
    \/ \E n \in Starts : PubsubExit(n)

Next ==
    \/ NextLifecycle
    \/ NextWriter
    \/ NextSend
    \/ NextRoundTrip
    \/ NextProbe
    \/ NextFramer
    \/ NextRequest
    \/ NextPubsub
    \/ NextStop

Spec == Init /\ [][Next]_vars

\* The request tracker on its own: one stream arrival creates the peer's
\* worker; Sends, their timeout goroutines and Response envelopes run in
\* every interleaving.  The write queue has room for every Send and the
\* data of the Responses decodes.
NextTracker ==
    \/ \E p \in Peers : HostConnect(p)
    \/ \E p \in Peers : InboundStream(1, p)
    \/ HGet(1)
    \/ HInsert(1)
    \/ \E w \in W, res \in ReadResults, more \in BOOLEAN : FramerRead(w, res, more)
    \/ NextSendWith(DecodableInputs)

SpecTracker == Init /\ [][NextTracker]_vars

\* Send against a worker that can be torn down and whose queue is shared
\* with the responses to the ping requests of the peer.  No Response to the Send
\* arrives, and StartServer has not been called: the response to the
\* request of the peer carries an error.
NextBackpressure ==
    \/ \E p \in Peers : HostConnect(p)
    \/ \E p \in Peers : InboundStream(1, p)
    \/ HGet(1)
    \/ HInsert(1)
    \/ \E w \in W, res \in ReadResults, more \in BOOLEAN : FramerRead(w, res, more)
    \/ \E c \in CTasks, p \in Peers : HostDisconnect(c, p)
    \/ \E c \in CTasks : CPop(c)
    \/ \E c \in CTasks : CPublish(c)
    \/ \E c \in CTasks : CStop(c)
    \/ \E w \in W : WriterTake(w)
    \/ \E w \in W : WriterWrite(w)
    \/ \E w \in W : WriterExit(w)
    \/ \E w \in W : ReaderExit(w)
    \/ \E s \in S, p \in Peers, encOK \in BOOLEAN : SendStart(s, p, "ping", Hello, encOK)
    \/ \E s \in S : SendLookup(s)
    \/ \E s \in S : SendEnqueue(s)
    \/ \E s \in S : SendReturn(s)
    \/ \E s \in S : TimerCheck(s)
    \/ \E s \in S : TimerClose(s)
    \/ \E s \in S : TimerSend(s)
    \/ \E s \in S : TimerCloseChans(s)
    \/ \E q \in Q, w \in W : ReqArrive(q, w, PingRequest)
    \/ \E q \in Q, look \in LookupOutcomes : ReqHandle(q, look)
    \/ \E q \in Q : ReqEnqueue(q)

SpecBackpressure == Init /\ [][NextBackpressure]_vars

\* The worker table under stream arrivals, discovery and disconnects.
SpecLifecycle == Init /\ [][NextLifecycle]_vars

\* host.Close() closes the connections of the host: each connected peer is
\* disconnected and the Disconnected notification runs closeConnectionHandler.
HostClosesConnection == \E c \in CTasks, p \in Peers : HostClosed /\ HostDisconnect(c, p)

\* The stopper of StartServer with the loops it stops.  The peers stay
\* connected until the host is closed.
NextStopper ==
    \/ \E n \in Starts : StartServer(n)
    \/ \E n \in Starts, p \in Peers : DiscPeerFound(n, p)
    \/ \E n \in Starts, ok \in BOOLEAN : DiscConnect(n, ok)
    \/ \E n \in Starts, ok \in BOOLEAN : DiscNewStream(n, ok)
    \/ \E n \in Starts : HGet(DiscTask(n))
    \/ \E n \in Starts : HInsert(DiscTask(n))
    \/ \E n \in Starts : DiscPublish(n)
    \/ HostClosesConnection
    \/ \E c \in CTasks : CPop(c)
    \/ \E c \in CTasks : CPublish(c)
    \/ \E c \in CTasks : CStop(c)
    \/ NextStop

SpecStopper == Init /\ [][NextStopper]_vars

\* The dispatcher of a Request envelope on a worker that can be torn down,
\* while StartServer registers the handlers.
NextDispatcher ==
    \/ StartServer(1)
    \/ \E p \in Peers : HostConnect(p)
    \/ \E p \in Peers : InboundStream(1, p)
    \/ HGet(1)
    \/ HInsert(1)
    \/ \E w \in W, res \in ReadResults, more \in BOOLEAN : FramerRead(w, res, more)
    \/ \E c \in CTasks, p \in Peers : HostDisconnect(c, p)
    \/ \E c \in CTasks : CPop(c)
    \/ \E c \in CTasks : CPublish(c)
    \/ \E c \in CTasks : CStop(c)
    \/ \E w \in W : WriterTake(w)
    \/ \E w \in W : WriterWrite(w)
    \/ \E w \in W : WriterExit(w)
    \/ \E w \in W : ReaderExit(w)
    \/ \E w \in W, in \in ReqInputs : ReqArrive(1, w, in)
    \/ \E look \in LookupOutcomes : ReqHandle(1, look)
    \/ ReqEnqueue(1)

SpecDispatcher == Init /\ [][NextDispatcher]_vars

\* The write queue of a worker between its senders (MaxFlight concurrent
\* Sends, and the response to a request of the peer) and its writer, with
\* a disconnect and stream resets.  The timeout goroutines and the responses of the peer
\* are left out: a Send stays in its select.  StartServer has not been
\* called: the ping request of the peer is answered with the error of
\* getRPCHandler.
NextQueue ==
    \/ \E p \in Peers : HostConnect(p)
    \/ \E p \in Peers : InboundStream(1, p)
    \/ HGet(1)
    \/ HInsert(1)
    \/ \E w \in W : FramerRead(w, "frame", FALSE)
    \/ \E p \in Peers : HostDisconnect(1, p)
    \/ CPop(1)
    \/ CPublish(1)
    \/ CStop(1)
    \/ \E w \in W : StreamReset(w)
    \/ \E w \in W : WriterTake(w)
    \/ \E w \in W : WriterWrite(w)
    \/ \E w \in W : WriterExit(w)
    \/ \E w \in W : ReaderExit(w)
    \/ \E s \in Flights, p \in Peers, encOK \in BOOLEAN : SendStart(s, p, "ping", Hello, encOK)
    \/ \E s \in Flights : SendLookup(s)
    \/ \E s \in Flights : SendEnqueue(s)
    \/ \E w \in W : ReqArrive(1, w, PingRequest)
    \/ \E look \in LookupOutcomes : ReqHandle(1, look)
    \/ ReqEnqueue(1)

SpecQueue == Init /\ [][NextQueue]_vars

\* Calls of newRPCStreamHandler, by the host and by the discovery loop,
\* interleaved with each other and with disconnects.
NextStreams ==
    \/ StartServer(1)
    \/ \E p \in Peers : HostConnect(p)
    \/ \E t \in HostTasks, p \in Peers : InboundStream(t, p)
    \/ \E t \in HTasks : HGet(t)
    \/ \E t \in HTasks : HInsert(t)
    \/ \E c \in CTasks, p \in Peers : HostDisconnect(c, p)
    \/ \E c \in CTasks : CPop(c)
    \/ \E c \in CTasks : CPublish(c)
    \/ \E c \in CTasks : CStop(c)
    \/ \E p \in Peers : DiscPeerFound(1, p)
    \/ \E ok \in BOOLEAN : DiscConnect(1, ok)
    \/ \E ok \in BOOLEAN : DiscNewStream(1, ok)
    \/ DiscPublish(1)

SpecStreams == Init /\ [][NextStreams]_vars

\* Sends to a peer that disconnects and never answers: the worker is torn
\* down while Sends are in progress and their timeout goroutines run.
NextCut ==
    \/ \E p \in Peers : HostConnect(p)
    \/ \E p \in Peers : InboundStream(1, p)
    \/ HGet(1)
    \/ HInsert(1)
    \/ \E c \in CTasks, p \in Peers : HostDisconnect(c, p)
    \/ \E c \in CTasks : CPop(c)
    \/ \E c \in CTasks : CPublish(c)
    \/ \E c \in CTasks : CStop(c)
    \/ \E w \in W : WriterTake(w)
    \/ \E w \in W : WriterWrite(w)
    \/ \E w \in W : WriterExit(w)
    \/ \E s \in S, p \in Peers, encOK \in BOOLEAN : SendStart(s, p, "ping", Hello, encOK)
    \/ \E s \in S : SendLookup(s)
    \/ \E s \in S : SendEnqueue(s)
    \/ \E s \in S : SendReturn(s)
    \/ \E s \in S : TimerCheck(s)
    \/ \E s \in S : TimerClose(s)
    \/ \E s \in S : TimerSend(s)
    \/ \E s \in S : TimerCloseChans(s)

SpecCut == Init /\ [][NextCut]_vars

\* The pubsub dispatcher with the local broadcasts, the messages of the
\* peers and the stopper.
NextDispatch ==
    \/ StartServer(1)
    \/ \E p \in Peers : HostConnect(p)
    \/ NextPubsub
    \/ \E k \in K : StopCall(k)
    \/ \E k \in K : StopPubsub(k)
    \/ \E n \in Starts : PubsubExit(n)

SpecPubsub == Init /\ [][NextDispatch]_vars

\* One Send of any method and text to a peer that answers it: the worker,
\* the writer, the peer's dispatcher, the Response, the timeout.
NextPing ==
    \/ \E p \in Peers : HostConnect(p)
    \/ \E p \in Peers : InboundStream(1, p)
    \/ HGet(1)
    \/ HInsert(1)
    \/ \E w \in W, res \in ReadResults, more \in BOOLEAN : FramerRead(w, res, more)
    \/ \E w \in W : WriterTake(w)
    \/ \E w \in W : WriterWrite(w)
    \/ \E p \in Peers, method \in Methods, x \in Texts, encOK \in BOOLEAN :
          SendStart(1, p, method, x, encOK)
    \/ SendLookup(1)
    \/ SendEnqueue(1)
    \/ SendReturn(1)
    \/ TimerCheck(1)
    \/ TimerClose(1)
    \/ TimerSend(1)
    \/ TimerCloseChans(1)
    \/ \E w \in W, i \in 1..(MaxSends + MaxReq) : PeerAnswers(1, w, i)
    \/ RespGet(1)
    \/ RespCheck(1)
    \/ RespClose(1)
    \/ RespSend(1)
    \/ RespCloseChans(1)

SpecRoundTrip == Init /\ [][NextPing]_vars

\* One worker, its stream, its framer and its reader loop, the disconnect
\* and the reset of the stream.
NextReader ==
    \/ StartServer(1)
    \/ \E p \in Peers : HostConnect(p)
    \/ \E p \in Peers : InboundStream(1, p)
    \/ HGet(1)
    \/ HInsert(1)
    \/ \E c \in CTasks, p \in Peers : HostDisconnect(c, p)
    \/ \E c \in CTasks : CPop(c) \/ CPublish(c) \/ CStop(c)
    \/ \E w \in W : StreamReset(w)
    \/ \E w \in W : ReaderExit(w)
    \/ NextFramer
    \/ \E w \in W, in \in ReqInputs : ReqArrive(1, w, in)
    \/ \E look \in LookupOutcomes : ReqHandle(1, look)
    \/ ReqEnqueue(1)

SpecReader == Init /\ [][NextReader]_vars

\* What the Response read by task r carries in the correlation runs: the
\* first an error, the second a result, the third a result that does not
\* decode, and so on, so that the Responses in flight differ.
FlightInput(r) ==
    IF r % 3 = 1 THEN [err |-> TRUE, data |-> <<Null>>]
    ELSE IF r % 3 = 2 THEN [err |-> FALSE, data |-> MarshalPingResp(HandlerPing(Hello))]
    ELSE [err |-> FALSE, data |-> <<"{">>]

\* The id the Response read by task r carries in the correlation runs: the
\* id of the next Send (round the Flights), so that the Responses arrive out
\* of the order of the Sends, before their Send has stored its tracker or
\* after.
FlightIds(r) == {(r % MaxFlight) + 1}

\* Several Sends in flight and Responses that arrive in any order, each
\* read from the stream by itself.
NextCorrelate ==
    \/ \E p \in Peers : HostConnect(p)
    \/ \E p \in Peers : InboundStream(1, p)
    \/ HGet(1)
    \/ HInsert(1)
    \/ \E w \in W, res \in ReadResults : FramerRead(w, res, FALSE)
    \/ \E w \in W : WriterTake(w)
    \/ \E w \in W : WriterWrite(w)
    \/ \E s \in Flights, p \in Peers : SendStart(s, p, "ping", Hello, TRUE)
    \/ \E s \in Flights : SendLookup(s)
    \/ \E s \in Flights : SendEnqueue(s)
    \/ \E s \in Flights : SendReturn(s)
    \/ \E r \in Flights, w \in W : \E id \in FlightIds(r) : RespArrive(r, w, id, FlightInput(r))
    \/ \E r \in Flights : RespGet(r)
    \/ \E r \in Flights : RespCheck(r)
    \/ \E r \in Flights : RespClose(r)
    \/ \E r \in Flights : RespSend(r)
    \/ \E r \in Flights : RespCloseChans(r)

SpecCorrelate == Init /\ [][NextCorrelate]_vars

\* ------------------------------------------------------------ properties
\* Send s has enqueued its request (its timeout goroutine exists).
SendEnqueued(s) == tPc[s] # "none"

\* A msgProcessor goroutine is still working on a Response for Send s.
RespActive(s) == \E r \in R : rId[r] = s /\ rPc[r] \notin {"idle", "done"}

\* Nothing more will happen to the tracker of Send s: the process has
\* ended, or the timeout goroutine and every response task have finished.
Settled(s) == crashed \/ (tPc[s] = "done" /\ ~RespActive(s))

\* C1: every Send that enqueued its request gets exactly one outcome (the
\* response or one error), exactly once, whatever the interleaving of
\* responseHandler and the timeout goroutine: never more than one, and one
\* as soon as both tasks are through.
C1_ExactlyOneOutcome ==
    \A s \in S :
        /\ delivered[s] <= 1
        /\ (SendEnqueued(s) /\ Settled(s)) => delivered[s] = 1

\* C2: every tracker a Send inserted into p2p.reqs is gone when that Send
\* has returned, on every return path; with no Send in progress the table
\* is empty.
C2_TrackerRemovedOnReturn ==
    /\ \A s \in S : sPc[s] = "returned" => s \notin reqs
    /\ (\A s \in S : sPc[s] \in {"idle", "returned"}) => reqs = {}

\* C3: the closeSig of a tracker is closed by exactly one of the two tasks:
\* close(closeSig) is never executed a second time.
C3_LatchClosedOnce == \A s \in S : closeCount[s] <= 1

\* C4: a Response that arrives after the timeout of its Send was delivered
\* is dropped: its task never reaches the close of the latch, a send on
\* resp/err or the close of resp/err (where it would panic or block), it
\* does not panic, and the Send keeps the timeout as its single outcome.
C4_LateResponseDropped ==
    \A r \in R :
        rLate[r] =>
            /\ rPc[r] \in {"get", "check", "done"}
            /\ ~rPanicked[r]
            /\ delivered[rId[r]] = 1
            /\ sResult[rId[r]] = "timeout"

\* A late Response found its tracker still in the table and was dropped.
C4_Witness ==
    \E r \in R : rLate[r] /\ rFound[r] /\ rPc[r] = "done"

\* C5: the timeout covers the whole call, so a Send in progress can always
\* still return.  Stated on finite runs: no Send is ever blocked for good,
\* that is, waiting to enqueue on a full write queue whose writer has
\* returned (nothing will take an envelope out again) while its timeout
\* goroutine has not been started.
C5_SendNeverBlockedForGood ==
    \A s \in S :
        ~ /\ sPc[s] = "enqueue"
          /\ Len(queue[sW[s]]) >= QueueCap
          /\ writerPc[sW[s]] = "exited"
          /\ tPc[s] = "none"

\* The disconnect of peer p has been handled and nothing about p is in
\* progress: p is not connected, every closeConnectionHandler for p has
\* returned (at least one ran), no newRPCStreamHandler for p is running and
\* no discovery loop is busy with p.
DisconnectHandled(p) ==
    /\ ~connected[p]
    /\ \E c \in CTasks : cPeer[c] = p
    /\ \A c \in CTasks : cPeer[c] = p => cPc[c] = "done"
    /\ \A t \in HTasks : hPeer[t] = p => hPc[t] \in {"idle", "done"}
    /\ \A n \in Starts : ~(dPeer[n] = p /\ dPc[n] \in {"connect", "newStream", "handler"})

\* C6: once the disconnect of a peer has been handled and the peer has not
\* reconnected, the worker table has no entry for it, in every interleaving
\* of newRPCStreamHandler with closeConnectionHandler.
C6_NoWorkerAfterDisconnect ==
    \A p \in Peers : DisconnectHandled(p) => procs[p] = NoWorker

\* The reader/writer pair of worker instance w is live: started and not
\* yet cancelled.
LivePair(w) ==
    /\ readerPc[w] = "running"
    /\ writerPc[w] = "running"
    /\ ~cancelled[w]

\* C7: at every state, every peer has at most one worker, that is at most
\* one live (not yet cancelled) reader/writer pair created for it.
C7_OneWorkerPerPeer ==
    \A p \in Peers : Cardinality({w \in W : wPeer[w] = p /\ LivePair(w)}) <= 1

\* C8: a second call of the stopper returns like the first.  Stated on
\* finite runs: after one call has returned, no other call of it is ever waiting
\* to send on stopSignal when the discovery loop, its only receiver, has
\* returned (such a call blocks for good).
C8_SecondStopReturns ==
    \A k \in K :
        (kPc[k] = "discovery" /\ \E j \in K : j # k /\ j[1] = k[1] /\ kPc[j] = "returned")
            => dPc[k[1]] # "exited"

\* C9: for a Request envelope whose handling is through and whose handler
\* did not panic, exactly one Response was enqueued; when a step before the
\* handler failed, it carries an error and the handler was not invoked;
\* when the handler returned an error, it carries "Internal error: ...".
C9_ExactlyOneResponse ==
    \A q \in Q :
        (qPc[q] = "done" /\ qIn[q].handler # "panic") =>
            /\ Len(qEnq[q]) = 1
            /\ ~InvokesHandler(qIn[q], qFound[q]) => (qEnq[q][1] # "" /\ ~qInvoked[q])
            /\ (qInvoked[q] /\ qIn[q].handler = "err") => qEnq[q][1] = "Internal error: "

\* C10: when the handler panicked and the handling is through, an error
\* Response was enqueued for the request and the worker's reader and writer
\* are running (unless the worker was cancelled by a disconnect).
C10_PanicAnswered ==
    \A q \in Q :
        (qPc[q] = "done" /\ qInvoked[q] /\ qIn[q].handler = "panic") =>
            /\ Len(qEnq[q]) = 1
            /\ qEnq[q][1] # ""
            /\ ~cancelled[qW[q]] =>
                  (readerPc[qW[q]] = "running" /\ writerPc[qW[q]] = "running")

\* No call of newRPCStreamHandler or closeConnectionHandler is in progress
\* and every discovery loop is at its select (or has not started or has
\* returned).
LifecycleQuiet ==
    /\ \A t \in HTasks : hPc[t] \in {"idle", "done"}
    /\ \A c \in CTasks : cPc[c] \in {"idle", "done"}
    /\ \A n \in Starts : dPc[n] \in {"none", "idle", "exited"}

\* Workers created so far, and workers torn down (popped from the table by
\* a closeConnectionHandler) so far.
WorkersCreated == Cardinality({w \in W : wPeer[w] # NoPeer})
WorkersTornDown == Cardinality({c \in CTasks : cW[c] # NoWorker})

\* C11: a peer list is published for every worker created (by a stream the
\* host hands to newRPCStreamHandler or by the discovery loop) and for every
\* worker torn down: once the calls in progress are through, at least as
\* many peer lists have been published as workers were created and torn
\* down.
C11_PublishPerWorkerEvent ==
    LifecycleQuiet => published >= WorkersCreated + WorkersTornDown

\* The worker lifecycle with the scheduler's fairness: every goroutine of
\* the program that can take a step takes it, and a dial ends.  Nothing is
\* assumed of the environment: the peers, the mDNS service and the receiver
\* of the peer-list channel (CPublish, DiscPublish).
FairLifecycle ==
    /\ SpecLifecycle
    /\ \A t \in HTasks : WF_vars(HGet(t)) /\ WF_vars(HInsert(t))
    /\ \A c \in CTasks : WF_vars(CPop(c)) /\ WF_vars(CStop(c))
    /\ \A n \in Starts : WF_vars(\E ok \in BOOLEAN : DiscConnect(n, ok))
    /\ \A n \in Starts : WF_vars(\E ok \in BOOLEAN : DiscNewStream(n, ok))
    /\ \A w \in W : WF_vars(WriterExit(w)) /\ WF_vars(ReaderExit(w))

\* C12: when closeConnectionHandler runs for a peer that has a worker, the
\* worker's cancel is invoked and its reader and writer exit, with fairness
\* of the program's own tasks only (the receiver of the peer-list channel
\* need not be receiving).
C12_DisconnectStopsWorker ==
    \A c \in CTasks :
        (cW[c] # NoWorker) ~>
            (/\ cW[c] # NoWorker
             /\ cancelled[cW[c]]
             /\ readerPc[cW[c]] = "exited"
             /\ writerPc[cW[c]] = "exited")

\* The stopper with the scheduler's fairness.  The select of the discovery
\* loop chooses among its ready cases at random, so a stopper that is ready
\* to send on stopSignal every time the loop comes back to the select is
\* chosen in the end (strong fairness).  Nothing is assumed of the receiver
\* of the peer-list channel (CPublish, DiscPublish) or of the mDNS service.
FairStopper ==
    /\ SpecStopper
    /\ \A n \in Starts : WF_vars(HGet(DiscTask(n))) /\ WF_vars(HInsert(DiscTask(n)))
    /\ \A n \in Starts : WF_vars(\E ok \in BOOLEAN : DiscConnect(n, ok))
    /\ \A n \in Starts : WF_vars(\E ok \in BOOLEAN : DiscNewStream(n, ok))
    /\ \A k \in K : WF_vars(StopPubsub(k)) /\ SF_vars(StopDiscovery(k))
    /\ \A k \in K : WF_vars(StopSerClose(k)) /\ WF_vars(StopHostClose(k)) /\ WF_vars(StopClose(k))
    /\ WF_vars(HostClosesConnection)
    /\ \A c \in CTasks : WF_vars(CPop(c)) /\ WF_vars(CStop(c))
    /\ \A n \in Starts : WF_vars(PubsubExit(n))

\* C18: after the stopper is called, the pubsub loop and the discovery loop
\* return and a call of the stopper returns, whatever the discovery loop is
\* doing when the stopper is called (at its select, dialling, or publishing
\* the peer list), as long as the process lives.
C18_StopTerminates ==
    \A n \in Starts :
        (started[n] = "ok" /\ \E k \in K : k[1] = n /\ kPc[k] # "idle") ~>
            (\/ /\ \E k \in K : k[1] = n /\ kPc[k] = "returned"
                /\ dPc[n] = "exited"
                /\ pPc[n] = "exited"
             \/ crashed)

\* C19: a call of newRPCStreamHandler for a peer that has a worker is a
\* no-op: a step of the call taken while the table holds a worker for the
\* peer leaves the table, every queue, every cancel and every reader and
\* writer as they are (nothing is started for the new stream).
C19_SecondWorkerIsNoop ==
    [][\A t \in HTasks :
          (/\ hPc[t] \in {"get", "insert"}
           /\ hPc'[t] # hPc[t]
           /\ procs[hPeer[t]] # NoWorker) => UNCHANGED workerVars]_vars

\* Two streams of a peer have been handled, one worker was created and it
\* is the peer's live worker.
C19_Witness ==
    /\ \A t \in HostTasks : hPc[t] = "done"
    /\ WorkersCreated = 1
    /\ \E p \in Peers : procs[p] # NoWorker /\ LivePair(procs[p])

\* The last n elements of a sequence.
LastN(seq, n) == SubSeq(seq, Len(seq) - n + 1, Len(seq))

\* C14: for the Sends (and responses) enqueued concurrently on the queue of
\* a connected peer, the writer emits each envelope to the stream exactly
\* once and in the order of the enqueues: while the worker's stream is open
\* and the worker has not been torn down, what was enqueued is what was
\* written, followed by the envelope the writer is writing, followed by
\* what is still queued, and the writer is there to write the rest.
C14_WriterFifoExactlyOnce ==
    \A w \in W :
        (streamOpen[w] /\ ~cancelled[w]) =>
            /\ enqLog[w] = wire[w] \o wMsg[w] \o queue[w]
            /\ writerPc[w] = "running"

\* The requests of two concurrent Sends were in the queue of a live worker
\* together, and the writer has written both to its stream, in the order
\* of their enqueues, with nothing left to write.
C14_Witness ==
    \E w \in W : \E i \in 1..Len(wire[w]), j \in 1..Len(wire[w]) :
        /\ streamOpen[w]
        /\ ~cancelled[w]
        /\ peakSends[w] >= 2
        /\ i < j
        /\ wire[w][i].kind = "request"
        /\ wire[w][j].kind = "request"
        /\ wire[w][i].id # wire[w][j].id
        /\ enqLog[w] = wire[w]

\* C20: a write queue never holds more than its capacity; a Send that finds
\* it full cannot enqueue (it proceeds only after the writer has taken an
\* envelope out); and the queue holds the most recently enqueued envelopes
\* in order, so none was dropped or overwritten for want of room.
C20_QueueBounded ==
    /\ \A w \in W :
          /\ Len(queue[w]) <= QueueCap
          /\ Len(queue[w]) <= Len(enqLog[w])
          /\ queue[w] = LastN(enqLog[w], Len(queue[w]))
          /\ wMsg[w] \o queue[w] = LastN(enqLog[w], Len(wMsg[w]) + Len(queue[w]))
    /\ \A s \in AllSends :
          (sPc[s] = "enqueue" /\ Len(queue[sW[s]]) >= QueueCap)
              => ~ENABLED SendEnqueue(s)

\* A Send is blocked on a full queue whose writer is running.
C20_Witness ==
    \E s \in AllSends :
        /\ sPc[s] = "enqueue"
        /\ Len(queue[sW[s]]) = QueueCap
        /\ writerPc[sW[s]] = "running"

\* No Response envelope for Send s has been read from a stream.
NoResponseFor(s) == \A r \in R : rPc[r] # "idle" => rId[r] # s

\* C13: a Send whose peer disconnected while it was waiting for the
\* response, and for which no Response is read, does not hang and ends with
\* the timeout: as long as the process runs, while the Send waits its
\* timeout goroutine is on its way and can take its next step, the outcome
\* the Send receives is the timeout error, and its tracker is out of
\* p2p.reqs when it has returned.
C13_CutSendTimesOut ==
    \A s \in S :
        (sCut[s] /\ NoResponseFor(s) /\ Alive) =>
            /\ sPc[s] \in {"wait", "received", "returned"}
            /\ sPc[s] = "wait" =>
                  /\ tPc[s] \in {"sleep", "close", "send"}
                  /\ ENABLED (TimerCheck(s) \/ TimerClose(s) \/ TimerSend(s))
            /\ sPc[s] = "received" => (sResult[s] = "timeout" /\ ENABLED SendReturn(s))
            /\ sPc[s] = "returned" => (sResult[s] = "timeout" /\ s \notin reqs)

\* A Send cut off by the disconnect of its peer has returned the timeout.
C13_Witness ==
    \E s \in S :
        /\ sCut[s]
        /\ NoResponseFor(s)
        /\ sPc[s] = "returned"
        /\ sResult[s] = "timeout"
        /\ s \notin reqs

\* Send s left an envelope on some write queue.
Enqueued(s) ==
    \E w \in W : \E i \in 1..Len(enqLog[w]) :
        enqLog[w][i].kind = "request" /\ enqLog[w][i].id = s

\* C17: a Send that finds no worker for its peer returns "peer writer not
\* found" at once: the lookup is never blocked, and past it a Send without
\* a worker has returned that error, has put nothing on any queue, has
\* started no timeout and received nothing.
C17_NoWorkerReturnsAtOnce ==
    \A s \in S :
        /\ (sPc[s] = "lookup" /\ Alive) => ENABLED SendLookup(s)
        /\ sResult[s] = "writerNotFound" => sW[s] = NoWorker
        /\ (sPc[s] \notin {"idle", "lookup"} /\ sW[s] = NoWorker /\ sResult[s] # "encodeError") =>
              /\ sPc[s] = "returned"
              /\ sResult[s] = "writerNotFound"
              /\ ~Enqueued(s)
              /\ tPc[s] = "none"
              /\ delivered[s] = 0

\* A Send to a peer without a worker has returned "peer writer not found".
C17_Witness ==
    \E s \in S : sPc[s] = "returned" /\ sResult[s] = "writerNotFound"

\* C16: a broadcast published by the local peer is never delivered to the
\* local pubsub handler: the dispatcher starts a goroutine, and the handler
\* is invoked, only for messages received from (and written by) another
\* peer.
C16_NoSelfEcho ==
    \A msg \in psPending \cup psInvoked : msg.from # Local /\ msg.author # Local

\* The dispatcher has taken a broadcast of the local peer from the
\* subscription and skipped it, and has invoked the handler for a message
\* of a peer.
C16_Witness ==
    /\ \E i \in 1..psTaken : psLog[i].author = Local /\ psLog[i].type = "echo"
    /\ \E msg \in psInvoked : msg.from \in Peers

\* C15: the round trip of a Send.  When the peer has a handler for the
\* method (ping) and its Response is delivered to the Send before the
\* timeout, the Send returns no error and responseData is the handler's
\* result for requestData; a ping of "hello" gives "Ping: hello!".
C15_RoundTrip ==
    \A s \in S :
        (sMethod[s] = "ping" /\ sResult[s] \in {"ok", "peerError", "decodeError"}) =>
            /\ sResult[s] = "ok"
            /\ sOut[s] = HandlerPing(sArg[s])

\* A ping of "hello" has returned "Ping: hello!".
C15_Witness ==
    \E s \in S :
        /\ sPc[s] = "returned"
        /\ sArg[s] = Hello
        /\ sResult[s] = "ok"
        /\ sOut[s] = <<"Ping: ", "hello", "!">>

\* The most client.Ping() calls one createClientForPeer may make.
MaxAttempts == LastRetry + 1

\* C21: the bring-up probe.  A call of createClientForPeer makes at most 20
\* ping attempts; after the first attempt without error it returns the
\* client and no error and makes no further attempt; after 20 failed
\* attempts it has returned an error and no client.
C21_AtMostTwentyPings ==
    \A b \in B :
        /\ bPings[b] <= MaxAttempts
        /\ bLast[b] = "ok" =>
              /\ bPc[b] = "returned" /\ bClient[b] /\ ~bErr[b]
        /\ (bLast[b] = "err" /\ bPings[b] >= MaxAttempts) =>
              /\ bPc[b] = "returned" /\ ~bClient[b] /\ bErr[b]
        /\ bPc[b] = "returned" => \A out \in PingOutcomes : ~ENABLED ProbePing(b, out)

\* A probe has returned an error after 20 failed attempts, and a probe has
\* returned its client after a failed attempt and a successful one.
C21_Witness ==
    /\ \E b \in B :
          /\ bPc[b] = "returned"
          /\ bLast[b] = "err"
          /\ bPings[b] = MaxAttempts
          /\ bTries[b] = LastRetry
    /\ \E b \in B : bPc[b] = "returned" /\ bLast[b] = "ok" /\ bPings[b] = 2

\* The reader loop never goes round on the closed frame channel.
ReaderLeavesClosedChan == \A w \in W : ~readerSpun[w]

\* Once the worker is cancelled and its stream closed, a framer that has not
\* ended can take its next step.
FramerNotStuck ==
    \A w \in W :
        (Alive /\ cancelled[w] /\ ~streamOpen[w] /\ fPc[w] \in {"read", "send"}) =>
            ENABLED (JunkArrive(w) \/ \E res \in ReadResults, more \in BOOLEAN : FramerRead(w, res, more))

\* C22: the reader task exits on cancel or on stream close.  Once the stream
\* has ended the reader loop terminates, it does not keep iterating on the
\* closed frame channel; and once the worker is cancelled and the stream is
\* closed the framer terminates, it does not stay blocked on handing over a
\* frame.
C22_ReaderAndFramerExit == ReaderLeavesClosedChan /\ FramerNotStuck

\* The Response task r has delivered to Send s what it carried.
Carried(s, r) ==
    /\ rId[r] = s
    /\ sResult[s] = ResponseOutcome(rErr[r], UnmarshalPingResp(rData[r]).ok)
    /\ sResult[s] = "ok" => sOut[s] = UnmarshalPingResp(rData[r]).val

\* C23: a Send only ever completes with the outcome carried by a Response
\* whose id is the id minted for that Send, whatever the number of Sends in
\* flight and the order of the Responses; and a Response whose id matches no
\* entry of the table changes no tracker: its task ends at the lookup, it has
\* closed no latch and delivered nothing.
C23_ResponseMatchesId ==
    /\ \A s \in AllSends :
          /\ sFrom[s] # 0 => rId[sFrom[s]] = s
          /\ sResult[s] \in {"ok", "peerError", "decodeError"} =>
                (sFrom[s] \in AllResps /\ Carried(s, sFrom[s]))
    /\ \A r \in AllResps :
          (rPc[r] \notin {"idle", "get"} /\ ~rFound[r]) =>
              /\ rPc[r] = "done"
              /\ ~rPanicked[r]
              /\ \A s \in AllSends : sFrom[s] # r

\* Two Sends were in flight together, the Response to the second one
\* arrived first, and each Send got its own: the second Send the error of
\* the first Response, the first Send the result of the second Response.
C23_Witness ==
    /\ sFrom[1] = 2 /\ sFrom[2] = 1
    /\ sResult[1] = "ok" /\ sResult[2] = "peerError"
    /\ sPc[1] = "returned" /\ sPc[2] = "returned"

====
